---- MODULE Spec2Model ----
(***************************************************************************)
(* State-machine model of the deployment monitor (CursesMonitor in         *)
(* deploy-monitor-curses.py) and of the locking of the infrastructure      *)
(* manager (InfrastructureManager in infra-manager.py).                    *)
(*                                                                         *)
(* The background updater thread is modelled statement by statement at the *)
(* granularity of its critical sections and of its control-plane calls:    *)
(* every `with self.state_lock` block is one atomic action, every          *)
(* run_aws_command / subprocess.run call is one action that draws the      *)
(* result of the call from a small set.  The render loop is a second       *)
(* thread that copies the shared state under the lock.                     *)
(***************************************************************************)
EXTENDS Integers, Sequences, FiniteSets, TLC

\* ------------------------------------------------------------------------
\* Bounds of the model
\* ------------------------------------------------------------------------
MaxConsumerCount == 2
MaxHealthy == 6
MaxOtherTargets == 1

\* ------------------------------------------------------------------------
\* Program constants
\* ------------------------------------------------------------------------
PHASES == << "networking", "security", "producer_namespace", "producer_workgroup",
             "consumer_namespaces", "consumer_workgroups", "vpc_endpoints", "nlb",
             "targets", "health" >>

PhaseKeys == { PHASES[i] : i \in 1..Len(PHASES) }

ReplicasPerConsumer == 3

\* Python's None for string-valued fields
None == "None"

\* ------------------------------------------------------------------------
\* Names the control plane can report.  `project_name in name` and
\* `'producer' in name.lower()` are substring tests; a name is modelled by
\* the two facts those tests extract from it.
\* ------------------------------------------------------------------------
ProducerName == "airline-producer-wg"
ConsumerNames == << "airline-consumer-1" >>
WorkgroupNames == <<ProducerName>> \o ConsumerNames

\* a consumer beyond the configured ones
ExtraConsumer == "airline-consumer-2"

ContainsProject(name) ==
    name \in {ProducerName, ExtraConsumer} \cup { ConsumerNames[i] : i \in 1..Len(ConsumerNames) }
              \cup {"airline-endpoint-1", "airline-endpoint-2"}

ContainsProducer(name) == name = ProducerName

WorkgroupStatuses == {"AVAILABLE", "CREATING", "MODIFYING", "DELETING"}

\* ------------------------------------------------------------------------
\* Results of run_aws_command: None (timeout, error, non-zero exit, empty or
\* unparsable output) or the parsed JSON list.
\* ------------------------------------------------------------------------
NoneResult == [ok |-> FALSE, rows |-> <<>>]

Json(rows) == [ok |-> TRUE, rows |-> rows]

\* variant: the test is `is not None`, so an empty list counts as data
Truthy_NotNone(result) == result.ok

\* Python truthiness of a result: `if vpcs`, `if workgroups`, `not nlbs`
Truthy(result) == result.ok /\ result.rows # <<>>

\* ------------------------------------------------------------------------
\* Phase state: phase_status and phase_complete_sticky, passed around as one
\* record [status, sticky] so that the setter is a function.
\* ------------------------------------------------------------------------
InitPhaseStatus == [k \in PhaseKeys |-> "pending"]

InitPhaseCompleteSticky == [k \in PhaseKeys |-> FALSE]

\* variant: the setter without its early return on the sticky flag
SetPhaseStatusUnsafe_NotSticky(ph, phase_key, status) ==
    [status |-> [ph.status EXCEPT ![phase_key] = status],
     sticky |-> [ph.sticky EXCEPT ![phase_key] = IF status = "complete" THEN TRUE ELSE @]]

\* CursesMonitor._set_phase_status_unsafe
SetPhaseStatusUnsafe(ph, phase_key, status) ==
    IF ph.sticky[phase_key]
    THEN ph
    ELSE [status |-> [ph.status EXCEPT ![phase_key] = status],
          sticky |-> [ph.sticky EXCEPT ![phase_key] = IF status = "complete" THEN TRUE ELSE @]]

\* self.resources as built by __init__
InitResources ==
    [vpc |-> None, vpc_cidr |-> None, subnets |-> <<>>, subnet_azs |-> <<>>,
     producer_workgroup |-> None, producer_status |-> None,
     consumer_workgroups |-> <<>>, consumer_statuses |-> <<>>,
     nlb |-> None, nlb_dns |-> None, nlb_state |-> None,
     target_group_arn |-> None,
     healthy_targets |-> 0, total_targets |-> 0, target_states |-> <<>>,
     vpc_endpoints |-> <<>>, endpoint_statuses |-> <<>>]

\* dict[key] = value
DictSet(d, key, value) == (key :> value) @@ d

\* dict.get(key, default)
DictGet(d, key, default) == IF key \in DOMAIN d THEN d[key] ELSE default

\* ------------------------------------------------------------------------
\* Workgroup merge, lines 293-374 of update_deployment_status
\* ------------------------------------------------------------------------
\* first loop (306-321): rebuild the cached workgroups, count project
\* workgroups by status
RECURSIVE WgScan(_, _, _)
WgScan(rows, i, acc) ==
    IF i > Len(rows) THEN acc
    ELSE LET wg_name == rows[i][1]
             status == rows[i][2]
             res1 == IF ContainsProducer(wg_name)
                     THEN [acc.res EXCEPT !.producer_workgroup = wg_name,
                                          !.producer_status = status]
                     ELSE [acc.res EXCEPT
                             !.consumer_workgroups =
                                 IF status = "AVAILABLE" THEN Append(@, wg_name) ELSE @,
                             !.consumer_statuses = DictSet(@, wg_name, status)]
             next == IF ContainsProject(wg_name)
                     THEN [res |-> res1,
                           total_available |-> acc.total_available
                                                 + (IF status = "AVAILABLE" THEN 1 ELSE 0),
                           total_creating |-> acc.total_creating
                                                 + (IF status \in {"CREATING", "MODIFYING"}
                                                    THEN 1 ELSE 0)]
                     ELSE acc
         IN WgScan(rows, i + 1, next)

\* second loop (348-363): classify every returned workgroup as producer or
\* consumer and move the producer and namespace phases
RECURSIVE WgClassify(_, _, _)
WgClassify(rows, i, acc) ==
    IF i > Len(rows) THEN acc
    ELSE LET wg_name == rows[i][1]
             status == rows[i][2]
             next ==
               IF ContainsProducer(wg_name)
               THEN IF status = "CREATING"
                    THEN [acc EXCEPT !.ph = SetPhaseStatusUnsafe(
                                               SetPhaseStatusUnsafe(@, "producer_namespace", "complete"),
                                               "producer_workgroup", "in_progress")]
                    ELSE IF status = "AVAILABLE"
                    THEN [acc EXCEPT !.ph = SetPhaseStatusUnsafe(
                                               SetPhaseStatusUnsafe(@, "producer_namespace", "complete"),
                                               "producer_workgroup", "complete")]
                    ELSE acc
               ELSE IF status = "CREATING"
                    THEN [acc EXCEPT !.consumer_creating = @ + 1,
                                     !.ph = SetPhaseStatusUnsafe(@, "consumer_namespaces", "complete")]
                    ELSE IF status = "AVAILABLE"
                    THEN [acc EXCEPT !.consumer_available = @ + 1,
                                     !.ph = SetPhaseStatusUnsafe(@, "consumer_namespaces", "complete")]
                    ELSE acc
         IN WgClassify(rows, i + 1, next)

\* variant: the network phases are never inferred from workgroups
InferNetworking_Never(st, total_available, total_creating) == st

\* lines 326-332: workgroups exist, so the network must exist
InferNetworking(st, total_available, total_creating) ==
    IF total_available > 0 \/ total_creating > 0
    THEN [ph |-> SetPhaseStatusUnsafe(SetPhaseStatusUnsafe(st.ph, "networking", "complete"),
                                      "security", "complete"),
          res |-> IF st.res.vpc = None
                  THEN [st.res EXCEPT !.vpc = "inferred-from-workgroups"]
                  ELSE st.res]
    ELSE st

\* lines 365-374
ConsumerWorkgroupsRule(ph, consumer_available, consumer_creating, cc) ==
    IF consumer_creating > 0
    THEN SetPhaseStatusUnsafe(ph, "consumer_workgroups", "in_progress")
    ELSE IF consumer_available >= cc
    THEN SetPhaseStatusUnsafe(ph, "consumer_workgroups", "complete")
    ELSE IF consumer_available > 0
    THEN SetPhaseStatusUnsafe(ph, "consumer_workgroups", "in_progress")
    ELSE ph

\* variant: the cached workgroups are kept and merged into
ClearWorkgroups_Keep(res) == res

\* lines 300-304: clear resources first to rebuild accurately
ClearWorkgroups(res) ==
    [res EXCEPT !.consumer_workgroups = <<>>,
                !.consumer_statuses = <<>>,
                !.producer_workgroup = None,
                !.producer_status = None]

\* the whole critical section 293-374; st = [ph, res]
WgMerge(st, rows, cc) ==
    LET cleared == ClearWorkgroups(st.res)
        scan == WgScan(rows, 1, [res |-> cleared, total_available |-> 0, total_creating |-> 0])
        expected_total == cc + 1
        st1 == InferNetworking([ph |-> st.ph, res |-> scan.res],
                               scan.total_available, scan.total_creating)
    IN IF scan.total_available >= expected_total
       THEN [st1 EXCEPT !.ph = SetPhaseStatusUnsafe(
                                 SetPhaseStatusUnsafe(
                                   SetPhaseStatusUnsafe(
                                     SetPhaseStatusUnsafe(@, "producer_namespace", "complete"),
                                     "producer_workgroup", "complete"),
                                   "consumer_namespaces", "complete"),
                                 "consumer_workgroups", "complete")]
       ELSE IF scan.total_creating > 0 \/ scan.total_available > 0
       THEN LET cls == WgClassify(rows, 1, [ph |-> st1.ph, consumer_available |-> 0,
                                            consumer_creating |-> 0])
            IN [st1 EXCEPT !.ph = ConsumerWorkgroupsRule(cls.ph, cls.consumer_available,
                                                         cls.consumer_creating, cc)]
       ELSE st1

\* ------------------------------------------------------------------------
\* Endpoint merge, lines 384-414
\* ------------------------------------------------------------------------
EndpointNames == << "airline-endpoint-1", "airline-endpoint-2" >>

EndpointStatuses == {"ACTIVE", "CREATING", "DELETING"}

\* row[k] if len(row) > k else None, with k counted from 1
Field(row, k) == IF Len(row) >= k THEN row[k] ELSE None

RECURSIVE EpScan(_, _, _)
EpScan(rows, i, acc) ==
    IF i > Len(rows) THEN acc
    ELSE LET ep_name == Field(rows[i], 1)
             status == Field(rows[i], 2)
             address == Field(rows[i], 3)
             next ==
               IF ep_name # None /\ ContainsProject(ep_name)
               THEN [res |-> [acc.res EXCEPT
                                !.endpoint_statuses =
                                    DictSet(@, ep_name, [status |-> status, address |-> address]),
                                !.vpc_endpoints =
                                    IF status = "ACTIVE" THEN Append(@, ep_name) ELSE @],
                     active_endpoints |-> acc.active_endpoints
                                            + (IF status = "ACTIVE" THEN 1 ELSE 0),
                     creating_endpoints |-> acc.creating_endpoints
                                            + (IF status = "CREATING" THEN 1 ELSE 0)]
               ELSE acc
         IN EpScan(rows, i + 1, next)

EpMerge(st, rows, cc) ==
    LET cleared == [st.res EXCEPT !.vpc_endpoints = <<>>, !.endpoint_statuses = <<>>]
        scan == EpScan(rows, 1, [res |-> cleared, active_endpoints |-> 0,
                                 creating_endpoints |-> 0])
    IN [res |-> scan.res,
        ph |-> IF scan.creating_endpoints > 0
               THEN SetPhaseStatusUnsafe(st.ph, "vpc_endpoints", "in_progress")
               ELSE IF scan.active_endpoints >= cc
               THEN SetPhaseStatusUnsafe(st.ph, "vpc_endpoints", "complete")
               ELSE SetPhaseStatusUnsafe(st.ph, "vpc_endpoints", "pending")]

\* ------------------------------------------------------------------------
\* Load balancer, lines 420-447
\* ------------------------------------------------------------------------
NlbStates == {"active", "provisioning", "active_impaired", "failed"}

NlbDns == "nlb.example"

\* lines 427-432: `if not nlbs: nlbs = <contains query>`; the same shape is
\* used for the target groups at 455-460
NeedsFallback(exact) == ~Truthy(exact)

\* variant: every state of a found load balancer completes the phase
NlbMerge_AnyState(st, nlbs) ==
    [res |-> [st.res EXCEPT !.nlb_state = nlbs.rows[1][1], !.nlb_dns = Field(nlbs.rows[1], 2),
                            !.nlb = "active"],
     ph |-> SetPhaseStatusUnsafe(st.ph, "nlb", "complete")]

\* critical section 438-447
NlbMerge(st, nlbs) ==
    LET nlb_state == nlbs.rows[1][1]
        nlb_dns == Field(nlbs.rows[1], 2)
        res1 == [st.res EXCEPT !.nlb_state = nlb_state, !.nlb_dns = nlb_dns]
    IN IF nlb_state = "active"
       THEN [res |-> [res1 EXCEPT !.nlb = "active"],
             ph |-> SetPhaseStatusUnsafe(st.ph, "nlb", "complete")]
       ELSE IF nlb_state \in {"provisioning", "active_impaired"}
       THEN [res |-> [res1 EXCEPT !.nlb = nlb_state],
             ph |-> SetPhaseStatusUnsafe(st.ph, "nlb", "in_progress")]
       ELSE [res |-> res1, ph |-> st.ph]

\* ------------------------------------------------------------------------
\* Target health, lines 469-512
\* ------------------------------------------------------------------------
InitStateCounts == [s \in {"healthy", "initial", "unhealthy", "draining", "unavailable"} |-> 0]

\* lines 486-488
RECURSIVE CountStates(_, _, _)
CountStates(targets, i, state_counts) ==
    IF i > Len(targets) THEN state_counts
    ELSE CountStates(targets, i + 1,
                     DictSet(state_counts, targets[i], DictGet(state_counts, targets[i], 0) + 1))

\* line 500
ExpectedTargets(cc) == cc * ReplicasPerConsumer

\* variant: the comparison is strict
AllTargetsHealthy_Strict(healthy, cc) == healthy > ExpectedTargets(cc)

\* line 501
AllTargetsHealthy(healthy, cc) == healthy >= ExpectedTargets(cc)

\* ------------------------------------------------------------------------
\* Current phase pointer, lines 519-534 (0-based index into PHASES)
\* ------------------------------------------------------------------------
FirstIndexWith(status, wanted) ==
    LET hits == { i \in 1..Len(PHASES) : status[PHASES[i]] = wanted }
    IN IF hits = {} THEN -1
       ELSE (CHOOSE i \in hits : \A j \in hits : i <= j) - 1

\* variant: the first pending phase is preferred to a phase in progress
CurrentPhaseIndex_PendingFirst(status) ==
    IF FirstIndexWith(status, "pending") >= 0 THEN FirstIndexWith(status, "pending")
    ELSE IF FirstIndexWith(status, "in_progress") >= 0 THEN FirstIndexWith(status, "in_progress")
    ELSE Len(PHASES) - 1

CurrentPhaseIndex(status) ==
    IF FirstIndexWith(status, "in_progress") >= 0 THEN FirstIndexWith(status, "in_progress")
    ELSE IF FirstIndexWith(status, "pending") >= 0 THEN FirstIndexWith(status, "pending")
    ELSE Len(PHASES) - 1

\* ------------------------------------------------------------------------
\* Teardown detection in the render loop, lines 766-773
\* ------------------------------------------------------------------------
TeardownDetected(res) ==
    \/ res.producer_status \in {"DELETING", "DELETED"}
    \/ \E n \in DOMAIN res.consumer_statuses : res.consumer_statuses[n] \in {"DELETING", "DELETED"}
    \/ res.nlb_state = "deleting"

\* lines 863-877: what the progress bar counts as still existing during a
\* teardown; the VPC is looked up under the key 'vpc_id'
ExistingResources(res) ==
    (IF res.producer_status \notin {"DELETING", "DELETED", None} THEN 2 ELSE 0)
    + Cardinality({ n \in DOMAIN res.consumer_statuses :
                      res.consumer_statuses[n] \notin {"DELETING", "DELETED"} })
    + (IF res.nlb_state \notin {"deleting", None} THEN 2 ELSE 0)
    + (IF DictGet(res, "vpc_id", None) # None THEN 2 ELSE 0)

\* lines 862-884: pct = int((count / len(PHASES)) * 100); the double
\* arithmetic gives the exact multiple of ten for every count below 23
ProgressPct(status, res, teardown_mode) ==
    IF teardown_mode
    THEN (ExistingResources(res) * 100) \div Len(PHASES)
    ELSE (Cardinality({ k \in PhaseKeys : status[k] = "complete" }) * 100) \div Len(PHASES)

\* ------------------------------------------------------------------------
\* What the control plane can answer
\* ------------------------------------------------------------------------
VpcResults == {NoneResult, Json(<<>>), Json(<< <<"vpc-1", "10.0.0.0/16">> >>)}

MaxSubnets == 4

SubnetRows(n) == [i \in 1..n |-> << "subnet", "az", "cidr" >>]

SubnetResults == {NoneResult, Json(SubnetRows(MaxSubnets))}

\* every non-absent name with its status, in the order of `names`
RowsOf(names, assign) ==
    LET all == [i \in 1..Len(names) |-> << names[i], assign[i] >>]
        present(r) == r[2] # "absent"
    IN SelectSeq(all, present)

WorkgroupResults ==
    {NoneResult} \cup
    { Json(RowsOf(WorkgroupNames, a)) :
        a \in [1..Len(WorkgroupNames) -> WorkgroupStatuses \cup {"absent"}] }

EndpointRows(a) ==
    LET rows == RowsOf(EndpointNames, a)
    IN [i \in 1..Len(rows) |-> << rows[i][1], rows[i][2], "10.0.0.9" >>]

EndpointResults ==
    {NoneResult} \cup
    { Json(EndpointRows(a)) : a \in [1..Len(EndpointNames) -> EndpointStatuses \cup {"absent"}] }

NlbResults == {NoneResult} \cup { Json(<< <<s, NlbDns>> >>) : s \in NlbStates }

TgResults == {NoneResult, Json(<< <<"tg-arn">> >>)}

Repeat(x, n) == [i \in 1..n |-> x]

TargetLists ==
    { Repeat("healthy", h) \o other :
        h \in 0..MaxHealthy,
        other \in {<<>>} \cup { Repeat(s, n) : s \in {"initial", "unhealthy"}, n \in 1..MaxOtherTargets } }

\* outcome of the describe-target-health subprocess (469-475): the call times
\* out, exits non-zero or prints nothing, prints something json.loads
\* rejects, or prints a document with TargetHealthDescriptions
HealthResults ==
    { [kind |-> k, targets |-> <<>>] : k \in {"timeout", "error", "malformed"} }
    \cup { [kind |-> "ok", targets |-> t] : t \in TargetLists }

\* ------------------------------------------------------------------------
\* A run is checked against several control planes.  Each lets some families
\* of queries answer anything in the sets above and the others either fail
\* or give the answer of a finished deployment.
\* ------------------------------------------------------------------------
VpcFound == Json(<< <<"vpc-1", "10.0.0.0/16">> >>)

AllAvailable == Json(RowsOf(WorkgroupNames, [i \in 1..Len(WorkgroupNames) |-> "AVAILABLE"]))

WorkgroupsWith(producer, consumer) ==
    Json(RowsOf(WorkgroupNames,
                [i \in 1..Len(WorkgroupNames) |-> IF i = 1 THEN producer ELSE consumer]))

EndpointsActive == Json(EndpointRows([i \in 1..Len(EndpointNames) |-> "ACTIVE"]))

NlbActive == Json(<< <<"active", NlbDns>> >>)

TgFound == Json(<< <<"tg-arn">> >>)

HealthOf(h) == [kind |-> "ok", targets |-> Repeat("healthy", h)]

HealthError == [kind |-> "error", targets |-> <<>>]

ControlPlane(v, s, w, e, n, t, h) ==
    [vpcs |-> v, subnets |-> s, workgroups |-> w, endpoints |-> e, nlbs |-> n,
     tgs |-> t, health |-> h]

\* a list-workgroups answer with a record whose workgroupName is null
NullNameWorkgroups == Json(<< << None, "AVAILABLE" >> >>)

\* the network and the workgroups answer freely, nothing exists behind them;
\* the account may hold the workgroup of another project ("other-wg")
WorkgroupsPlane ==
    ControlPlane(VpcResults, SubnetResults,
                 WorkgroupResults
                   \cup {NullNameWorkgroups,
                         Json(<< << "other-wg", "AVAILABLE" >> >>),
                         Json(<< << ProducerName, "CREATING" >>, << "other-wg", "AVAILABLE" >> >>)},
                 {NoneResult}, {NoneResult}, {NoneResult}, {HealthError})

\* the endpoints and the load balancer answer freely
BalancerPlane ==
    ControlPlane({VpcFound}, {NoneResult}, {NoneResult, AllAvailable},
                 EndpointResults, NlbResults, {NoneResult}, {HealthError})

\* the target groups and the target health answer freely
TargetsPlane ==
    ControlPlane({NoneResult}, {NoneResult}, {NoneResult, AllAvailable},
                 {NoneResult, EndpointsActive}, {NoneResult, NlbActive, Json(<< <<"provisioning", NlbDns>> >>)},
                 TgResults, HealthResults)

\* a finished deployment that is then torn down
TeardownPlane ==
    ControlPlane({NoneResult}, {NoneResult},
                 {NoneResult, AllAvailable, WorkgroupsWith("DELETING", "AVAILABLE"),
                  WorkgroupsWith("AVAILABLE", "DELETING")},
                 {EndpointsActive}, {NlbActive}, {TgFound},
                 {HealthOf(ExpectedTargets(1)), HealthOf(ExpectedTargets(1) - 1)})

\* the producer and two consumers, each absent, being created or available
ScalingResults ==
    { Json(RowsOf(WorkgroupNames \o << ExtraConsumer >>, a)) :
        a \in [1..(Len(WorkgroupNames) + 1) -> {"AVAILABLE", "CREATING", "absent"}] }

\* the workgroups of a deployment that is given one consumer more
ScalingPlane ==
    ControlPlane({NoneResult}, {NoneResult}, ScalingResults,
                 {NoneResult}, {NoneResult}, {NoneResult}, {HealthError})

ControlPlanes == {WorkgroupsPlane, BalancerPlane, TargetsPlane, TeardownPlane, ScalingPlane}

\* a deployment in which every query may also fail
DeployPlane ==
    ControlPlane({NoneResult, VpcFound}, SubnetResults, {NoneResult, AllAvailable},
                 {NoneResult, EndpointsActive}, {NoneResult, NlbActive}, TgResults,
                 {[kind |-> "timeout", targets |-> <<>>], HealthOf(ExpectedTargets(1)),
                  HealthOf(ExpectedTargets(1) - 1)})

RenderControlPlanes == {TeardownPlane, DeployPlane}

NoHealth == [kind |-> "none", targets |-> <<>>]

\* the locals of update_deployment_status before any query; nlb_exact,
\* nlb_fallback, tg_exact and tg_fallback remember what each of the two
\* lookups answered, nlbs and tgs are the variables the code goes on with
NoLocals ==
    [vpcs |-> NoneResult, workgroups |-> NoneResult, endpoints |-> NoneResult,
     nlbs |-> NoneResult, nlb_exact |-> NoneResult, nlb_fallback |-> NoneResult,
     tgs |-> NoneResult, tg_exact |-> NoneResult, tg_fallback |-> NoneResult,
     subnets |-> NoneResult, health |-> NoHealth]

\* ------------------------------------------------------------------------
\* State
\* ------------------------------------------------------------------------
VARIABLES
    consumer_count,           \* self.consumer_count
    control_plane,            \* the answers the control plane can give in this run
    phase_status,             \* self.phase_status
    phase_complete_sticky,    \* self.phase_complete_sticky
    current_phase_index,      \* self.current_phase_index
    deployment_complete,      \* self.deployment_complete
    resources,                \* self.resources
    stop_thread,              \* self.stop_thread
    pc,                       \* position of the background updater thread
    locals,                   \* local variables of update_deployment_status
    poll_interval,            \* local of background_updater, in tenths of a second
    cycle_empty,              \* no query of the current cycle has returned data
    snap,                     \* the render loop's copy of the state
    render_pc,                \* position of the render loop / main
    exit_message,             \* what main() printed after the loop ended
    state_lock,               \* holder of self.state_lock: "free", "updater"
    env,                      \* os.environ, terraform.tfvars and the workgroup count of the account
    project_name,             \* self.project_name
    startup_pc                \* position of main() before the render loop

\* InfrastructureManager (infra-manager.py)
VARIABLES
    im_lock,                  \* holder of self.state_lock, or "free"
    im_pc,                    \* position of the main thread and of the background updater
    im_ret,                   \* where a thread goes on after set_status / update_all_data
    im_todo,                  \* what is left of the list a thread is looping over
    im_cache,                 \* self.cache
    im_status,                \* self.status_message / self.status_type
    im_stop                   \* self.stop_thread

\* Parts of the two programs that are checked on their own
VARIABLES
    alias,                    \* the list and dict objects self.resources refers to
    im_ui,                    \* InfrastructureManager: view, edit mode and edit buffer
    cred,                     \* the monitor's credential refresh
    fw                        \* the monitor's completion fireworks

aux_vars == << alias, im_ui, cred, fw >>

im_vars == << im_lock, im_pc, im_ret, im_todo, im_cache, im_status, im_stop >>

startup_vars == << env, project_name, startup_pc >>

\* what no step of the monitor changes
config == << consumer_count, control_plane, im_vars, startup_vars, aux_vars >>

monitor_vars == << consumer_count, control_plane, phase_status, phase_complete_sticky, current_phase_index,
                   deployment_complete, resources, stop_thread, pc, locals, poll_interval, cycle_empty, snap, render_pc,
                   exit_message, state_lock >>

vars == << monitor_vars, im_vars, startup_vars, aux_vars >>

shared == << phase_status, phase_complete_sticky, current_phase_index,
             deployment_complete, resources >>

render_vars == << snap, render_pc, exit_message >>

Ph == [status |-> phase_status, sticky |-> phase_complete_sticky]

St == [ph |-> Ph, res |-> resources]

\* assign a [ph, res] pair back to the fields
Store(st) ==
    /\ phase_status' = st.ph.status
    /\ phase_complete_sticky' = st.ph.sticky
    /\ resources' = st.res

\* variant: the status is written without going through the setter
set_phase_status_Direct(phase_key, status) ==
    /\ Store([ph |-> [status |-> [phase_status EXCEPT ![phase_key] = status],
                      sticky |-> phase_complete_sticky],
              res |-> resources])

\* CursesMonitor.set_phase_status: one critical section of its own
set_phase_status(phase_key, status) ==
    /\ Store([ph |-> SetPhaseStatusUnsafe(Ph, phase_key, status), res |-> resources])

NoSnapshot ==
    [taken |-> FALSE, phase_status |-> InitPhaseStatus, current_phase_index |-> 0,
     deployment_complete |-> FALSE, resources |-> InitResources, teardown_mode |-> FALSE,
     pct |-> 0]

InitMonitor ==
    /\ consumer_count \in 1..MaxConsumerCount
    /\ phase_status = InitPhaseStatus
    /\ phase_complete_sticky = InitPhaseCompleteSticky
    /\ current_phase_index = 0
    /\ deployment_complete = FALSE
    /\ resources = InitResources
    /\ stop_thread = FALSE
    /\ pc = "loop"
    /\ locals = NoLocals
    /\ poll_interval = 0
    /\ cycle_empty = FALSE
    /\ snap = NoSnapshot
    /\ exit_message = "none"
    /\ state_lock = "free"

\* PROJECT_NAME=airline and CONSUMER_COUNT unset, no tfvars, no workgroups yet
DefaultEnv == [PROJECT_NAME |-> "airline", CONSUMER_COUNT |-> None, tfvars |-> -1, aws |-> -1]

\* the monitor has been constructed and run() has started the updater
Started ==
    /\ env = DefaultEnv
    /\ project_name = "airline"
    /\ startup_pc = "running"

\* lines 62-80: __init__ creates the lists and dicts of self.resources;
\* heap[id] is the content of object id, refs the object a key refers to,
\* at and lock the updater's critical section, snap the render loop's
\* shallow copy with what it held when it was taken
AliasStart ==
    [heap |-> << <<>>, <<>>, <<>> >>,
     refs |-> [consumer_workgroups |-> 1, vpc_endpoints |-> 2, target_states |-> 3],
     at |-> "idle", lock |-> "free",
     snap |-> [taken |-> FALSE, refs |-> <<>>, seen |-> <<>>]]

\* InfrastructureManager.__init__, lines 38-44 and 72; base is the selected
\* workgroup's baseCapacity in the cache, key the last answer of getch() and
\* turn the parity of the number of answers, issued the capacity handed to
\* update_workgroup_capacity in the last turn (0: none), raised an exception
\* that left run()
UiStart ==
    [view |-> "MENU", edit_mode |-> "NONE", edit_buffer |-> <<>>, base |-> 32,
     key |-> -1, turn |-> 0, status |-> "", issued |-> 0, raised |-> FALSE]

\* CursesMonitor.__init__, lines 88-92: due says that credential_refresh_interval
\* has passed since last_credential_refresh, running counts the aws-azure-login
\* processes not yet ended, started those started since the refresh became due
CredStart ==
    [constructed |-> FALSE, due |-> FALSE, running |-> 0, started |-> 0,
     message |-> "none"]

\* CursesMonitor.__init__, lines 57-59, and run(), line 742: shown and frame
\* are fireworks_shown and fireworks_frame, particles the lives left to the
\* particles of self.fireworks, active and seen the locals fireworks_active
\* and deployment_complete of run(); fresh says that the last frame copied
\* the state, entered counts the entries into fireworks mode, quit is the
\* 'q' key
FwStart ==
    [active |-> FALSE, shown |-> FALSE, frame |-> 0, particles |-> {},
     seen |-> FALSE, fresh |-> FALSE, entered |-> 0, quit |-> FALSE]

\* the parts checked on their own are as their constructors leave them
Idle ==
    /\ alias = AliasStart
    /\ im_ui = UiStart
    /\ cred = CredStart
    /\ fw = FwStart

IMThreads == {"main", "background"}

InitCache ==
    [workgroups |-> {}, namespaces |-> {}, vpc |-> None, subnets |-> FALSE,
     security_groups |-> FALSE, nlb |-> None, target_groups |-> <<>>, target_health |-> {},
     last_update |-> FALSE]

\* InfrastructureManager.__init__, and run() about to do its initial load
InitManager ==
    /\ im_lock = "free"
    /\ im_pc = [t \in IMThreads |-> IF t = "main" THEN "update_all_data" ELSE "unstarted"]
    /\ im_ret = [t \in IMThreads |-> [status |-> "none", data |-> "start_thread"]]
    /\ im_todo = [t \in IMThreads |-> <<>>]
    /\ im_cache = InitCache
    /\ im_status = [message |-> "", type |-> "info"]
    /\ im_stop = FALSE

\* the manager is not running
ManagerOff ==
    /\ im_lock = "free"
    /\ im_pc = [t \in IMThreads |-> "unstarted"]
    /\ im_ret = [t \in IMThreads |-> [status |-> "none", data |-> "none"]]
    /\ im_todo = [t \in IMThreads |-> <<>>]
    /\ im_cache = InitCache
    /\ im_status = [message |-> "", type |-> "info"]
    /\ im_stop = FALSE

\* the background updater alone
Init ==
    /\ InitMonitor
    /\ control_plane \in ControlPlanes
    /\ render_pc = "off"
    /\ ManagerOff
    /\ Started
    /\ Idle

\* the background updater, the render loop and main
InitRender ==
    /\ InitMonitor
    /\ control_plane \in RenderControlPlanes
    /\ render_pc = "frame"
    /\ ManagerOff
    /\ Started
    /\ Idle

\* ------------------------------------------------------------------------
\* The background updater: background_updater and update_deployment_status
\* ------------------------------------------------------------------------
\* variant: the workgroup query is made inside the with block of its merge
LockedLabels_WithQuery ==
    {"poll", "vpc_check", "vpc_merge", "set_networking", "set_security", "subnets_merge",
     "wg_query", "wg_merge", "ep_merge", "nlb_guard", "nlb_merge", "tg_missing", "health_merge",
     "targets_complete", "health_complete", "set_deployment_complete",
     "targets_in_progress", "health_in_progress", "current_phase", "interval"}

\* the positions of the updater whose statement is the body of a
\* `with self.state_lock` block (set_phase_status takes the lock itself)
LockedLabels ==
    {"poll", "vpc_check", "vpc_merge", "set_networking", "set_security", "subnets_merge",
     "wg_merge", "ep_merge", "nlb_guard", "nlb_merge", "tg_missing", "health_merge",
     "targets_complete", "health_complete", "set_deployment_complete",
     "targets_in_progress", "health_in_progress", "current_phase", "interval"}

\* the positions at which a run_aws_command / subprocess.run call is made
CallLabels ==
    {"vpc_query", "subnets_query", "wg_query", "ep_query", "nlb_query", "nlb_fallback",
     "tg_query", "tg_fallback", "health_query"}

\* the statement at the current position runs inside its with block and
\* releases the lock at the end of it, or runs without the lock
Section ==
    IF pc \in LockedLabels
    THEN state_lock = "updater" /\ state_lock' = "free"
    ELSE state_lock # "updater" /\ UNCHANGED state_lock

\* entering a with block: threading.Lock.acquire blocks until the lock is free
AcquireLock ==
    /\ pc \in LockedLabels
    /\ state_lock = "free"
    /\ state_lock' = "updater"
    /\ UNCHANGED << config, shared, stop_thread, pc, locals, poll_interval, cycle_empty,
                    render_vars >>

\* variant: the loop does not look at the signal
LoopCondition_Forever(stop) == TRUE

\* line 538: while not self.stop_thread.is_set()
LoopCondition(stop) == ~stop

BackgroundLoop ==
    /\ pc = "loop"
    /\ pc' = IF LoopCondition(stop_thread) THEN "poll" ELSE "exited"
    /\ Section
    /\ UNCHANGED << config, shared, stop_thread,
                    locals, poll_interval, cycle_empty, render_vars >>

\* lines 250-253
PollTick ==
    /\ pc = "poll"
    /\ cycle_empty' = TRUE
    /\ pc' = "vpc_check"
    /\ Section
    /\ UNCHANGED << config, shared, stop_thread, locals, poll_interval, render_vars >>

\* variant: the VPC is looked up in every cycle
VpcCheck_Always ==
    /\ pc = "vpc_check"
    /\ pc' = "vpc_query"
    /\ Section
    /\ UNCHANGED << config, shared, stop_thread,
                    locals, poll_interval, cycle_empty, render_vars >>

\* lines 256-259
VpcCheck ==
    /\ pc = "vpc_check"
    /\ pc' = IF phase_status["networking"] = "complete" THEN "wg_query" ELSE "vpc_query"
    /\ Section
    /\ UNCHANGED << config, shared, stop_thread,
                    locals, poll_interval, cycle_empty, render_vars >>

\* the result is None or an empty list
IsEmptyResult(r) == ~r.ok \/ Len(r.rows) = 0

\* variant: a query without data ends the cycle
AfterQuery_Abort(r, onData, onEmpty) == IF Truthy(r) THEN onData ELSE "current_phase"

\* `if <result>:` around the merge of a result; the statements after the
\* if are reached either way
AfterQuery(r, onData, onEmpty) == IF Truthy(r) THEN onData ELSE onEmpty

\* a run_aws_command call whose result goes to the local `field`, followed
\* by the test `if <field>:` on it
Query(at, field, onData, onEmpty) ==
    /\ pc = at
    /\ \E r \in control_plane[field] :
         /\ locals' = [locals EXCEPT ![field] = r]
         /\ cycle_empty' = (cycle_empty /\ IsEmptyResult(r))
         /\ pc' = AfterQuery(r, onData, onEmpty)
    /\ Section
    /\ UNCHANGED << config, shared, stop_thread, poll_interval, render_vars >>

\* lines 261-266
VpcQuery == Query("vpc_query", "vpcs", "vpc_merge", "wg_query")

\* an exception leaves update_deployment_status (a with block it leaves
\* releases the lock); background_updater does not catch it, so the thread ends
Raise(at) ==
    /\ pc = at
    /\ pc' = "crashed"
    /\ state_lock' = IF state_lock = "updater" THEN "free" ELSE state_lock
    /\ UNCHANGED << config, shared, stop_thread, locals, poll_interval, cycle_empty,
                    render_vars >>

\* rows[0][0] is an IndexError on an empty list or an empty row
HasFirstCell(rows) == Len(rows) > 0 /\ Len(rows[1]) > 0

\* lines 267-272
VpcMerge ==
    IF ~HasFirstCell(locals.vpcs.rows) THEN Raise("vpc_merge")
    ELSE
    /\ pc = "vpc_merge"
    /\ resources' = [resources EXCEPT !.vpc = locals.vpcs.rows[1][1],
                                      !.vpc_cidr = Field(locals.vpcs.rows[1], 2)]
    /\ pc' = "set_networking"
    /\ Section
    /\ UNCHANGED << config, phase_status, phase_complete_sticky, current_phase_index,
                    deployment_complete, stop_thread,
                    locals, poll_interval, cycle_empty, render_vars >>

\* a statement `self.set_phase_status(key, status)` of the updater
SetPhaseStep(at, phase_key, status, next) ==
    /\ pc = at
    /\ set_phase_status(phase_key, status)
    /\ pc' = next
    /\ Section
    /\ UNCHANGED << config, current_phase_index, deployment_complete, stop_thread, locals, poll_interval, cycle_empty,
                    render_vars >>

\* line 273
SetNetworking == SetPhaseStep("set_networking", "networking", "complete", "set_security")

\* line 274
SetSecurity == SetPhaseStep("set_security", "security", "complete", "subnets_query")

\* lines 277-281
SubnetsQuery == Query("subnets_query", "subnets", "subnets_merge", "wg_query")

\* s[k] for the first three rows, 0-based slice subnets[:3]
FirstThree(rows, k) ==
    LET n == IF Len(rows) < 3 THEN Len(rows) ELSE 3
    IN [i \in 1..n |-> rows[i][k]]

\* lines 282-284
SubnetsMerge ==
    /\ pc = "subnets_merge"
    /\ resources' = [resources EXCEPT !.subnets = FirstThree(locals.subnets.rows, 1),
                                      !.subnet_azs = FirstThree(locals.subnets.rows, 2)]
    /\ locals' = [locals EXCEPT !.subnets = NoneResult]
    /\ pc' = "wg_query"
    /\ Section
    /\ UNCHANGED << config, phase_status, phase_complete_sticky, current_phase_index,
                    deployment_complete, stop_thread,
                    poll_interval, cycle_empty, render_vars >>

\* lines 287-292
WgQuery == Query("wg_query", "workgroups", "wg_merge", "ep_guard")

\* a critical section that merges a result into phases and resources
MergeStep(at, st, next) ==
    /\ pc = at
    /\ Store(st)
    /\ pc' = next
    /\ Section
    /\ UNCHANGED << config, current_phase_index, deployment_complete, stop_thread, locals, poll_interval, cycle_empty,
                    render_vars >>

\* line 308: `self.project_name in wg_name` is a TypeError when the name is null
HasNullName(rows) == \E i \in 1..Len(rows) : rows[i][1] = None

\* lines 293-374
WgMergeStep ==
    IF HasNullName(locals.workgroups.rows) THEN Raise("wg_merge")
    ELSE MergeStep("wg_merge", WgMerge(St, locals.workgroups.rows, consumer_count), "ep_guard")

\* variant: the endpoint query is issued in every cycle
EndpointGuard_Always(status) == TRUE

\* line 377: the endpoint query is guarded by the consumer_workgroups phase
EndpointGuard(status) == status["consumer_workgroups"] = "complete"

EpGuard ==
    /\ pc = "ep_guard"
    /\ pc' = IF EndpointGuard(phase_status) THEN "ep_query" ELSE "nlb_guard"
    /\ Section
    /\ UNCHANGED << config, shared, stop_thread,
                    locals, poll_interval, cycle_empty, render_vars >>

\* lines 378-383
EpQuery == Query("ep_query", "endpoints", "ep_merge", "nlb_guard")

\* lines 384-414
EpMergeStep == MergeStep("ep_merge", EpMerge(St, locals.endpoints.rows, consumer_count), "nlb_guard")

\* variant: the load balancer is looked up in every cycle
NlbGuard_Always ==
    /\ pc = "nlb_guard"
    /\ pc' = "nlb_query"
    /\ Section
    /\ UNCHANGED << config, shared, stop_thread,
                    locals, poll_interval, cycle_empty, render_vars >>

\* lines 417-420
NlbGuard ==
    /\ pc = "nlb_guard"
    /\ pc' = IF phase_status["vpc_endpoints"] = "complete" THEN "nlb_query" ELSE "current_phase"
    /\ Section
    /\ UNCHANGED << config, shared, stop_thread,
                    locals, poll_interval, cycle_empty, render_vars >>

\* variant: the answer of the contains query is dropped
Adopt_KeepExact(exact, fallback) == exact

\* lines 427-432 and 455-460: the variable keeps the exact answer unless
\* that answer is empty, in which case it takes the answer of the contains query
Adopt(exact, fallback) == IF NeedsFallback(exact) THEN fallback ELSE exact

\* an exact-name query and the test `if not <field>:` on its answer
ExactQuery(at, field, exactField, onData, onFallback) ==
    /\ pc = at
    /\ \E r \in control_plane[field] :
         /\ locals' = [locals EXCEPT ![field] = r, ![exactField] = r]
         /\ cycle_empty' = (cycle_empty /\ IsEmptyResult(r))
         /\ pc' = IF NeedsFallback(r) THEN onFallback ELSE onData
    /\ Section
    /\ UNCHANGED << config, shared, stop_thread, poll_interval, render_vars >>

\* the contains query and the test `if <field> and len(<field>) > 0:`
FallbackQuery(at, field, fallbackField, onData, onEmpty) ==
    /\ pc = at
    /\ \E r \in control_plane[field] :
         /\ locals' = [locals EXCEPT ![field] = Adopt(locals[field], r), ![fallbackField] = r]
         /\ cycle_empty' = (cycle_empty /\ IsEmptyResult(r))
         /\ pc' = IF Truthy(Adopt(locals[field], r)) THEN onData ELSE onEmpty
    /\ Section
    /\ UNCHANGED << config, shared, stop_thread, poll_interval, render_vars >>

\* lines 422-427
NlbQuery == ExactQuery("nlb_query", "nlbs", "nlb_exact", "nlb_merge", "nlb_fallback")

\* variant: the target group is looked up although no load balancer was found
NlbFallback_Unguarded == FallbackQuery("nlb_fallback", "nlbs", "nlb_fallback", "nlb_merge", "tg_query")

\* lines 429-434
NlbFallback == FallbackQuery("nlb_fallback", "nlbs", "nlb_fallback", "nlb_merge", "current_phase")

\* lines 435-447
NlbMergeStep ==
    IF ~HasFirstCell(locals.nlbs.rows) THEN Raise("nlb_merge")
    ELSE MergeStep("nlb_merge", NlbMerge(St, locals.nlbs), "tg_query")

\* lines 450-455
TgQuery == ExactQuery("tg_query", "tgs", "tg_exact", "health_query", "tg_fallback")

\* lines 457-462
TgFallback == FallbackQuery("tg_fallback", "tgs", "tg_fallback", "health_query", "tg_missing")

\* variant: without a target group the targets phase goes back to pending
TgMissing_Pending ==
    MergeStep("tg_missing",
              [ph |-> SetPhaseStatusUnsafe(Ph, "targets", "pending"), res |-> resources],
              "current_phase")

\* lines 513-517
TgMissing ==
    MergeStep("tg_missing",
              IF resources.nlb = "active"
              THEN [ph |-> SetPhaseStatusUnsafe(Ph, "targets", "in_progress"), res |-> resources]
              ELSE St,
              "current_phase")

\* lines 464-475: subprocess.run is called outside the try block, so its
\* TimeoutExpired is not caught here; json.loads is inside it
HealthQuery ==
    IF ~HasFirstCell(locals.tgs.rows) THEN Raise("health_query")
    ELSE
    /\ pc = "health_query"
    /\ \E r \in control_plane.health :
         /\ locals' = [locals EXCEPT !.health = r]
         /\ pc' = CASE r.kind = "timeout" -> "crashed"
                    [] r.kind = "ok" -> "health_merge"
                    [] OTHER -> "current_phase"
    /\ Section
    /\ UNCHANGED << config, shared, stop_thread,
                    poll_interval, cycle_empty, render_vars >>

StateCounts == CountStates(locals.health.targets, 1, InitStateCounts)

\* lines 476-506
HealthMerge ==
    /\ pc = "health_merge"
    /\ resources' = [resources EXCEPT !.healthy_targets = StateCounts["healthy"],
                                      !.total_targets = Len(locals.health.targets),
                                      !.target_states = StateCounts]
    /\ pc' = IF AllTargetsHealthy(StateCounts["healthy"], consumer_count) THEN "targets_complete"
             ELSE IF Len(locals.health.targets) > 0 THEN "targets_in_progress"
             ELSE "current_phase"
    /\ Section
    /\ UNCHANGED << config, phase_status, phase_complete_sticky, current_phase_index,
                    deployment_complete, stop_thread,
                    locals, poll_interval, cycle_empty, render_vars >>

\* line 502
TargetsComplete == SetPhaseStep("targets_complete", "targets", "complete", "health_complete")

\* line 503
HealthComplete == SetPhaseStep("health_complete", "health", "complete", "set_deployment_complete")

\* lines 504-505
SetDeploymentComplete ==
    /\ pc = "set_deployment_complete"
    /\ deployment_complete' = TRUE
    /\ pc' = "current_phase"
    /\ Section
    /\ UNCHANGED << config, phase_status, phase_complete_sticky, current_phase_index,
                    resources, stop_thread, locals,
                    poll_interval, cycle_empty, render_vars >>

\* lines 508-509
TargetsInProgress ==
    SetPhaseStep("targets_in_progress", "targets", "in_progress",
                 IF StateCounts["healthy"] > 0 \/ StateCounts["initial"] > 0
                 THEN "health_in_progress" ELSE "current_phase")

\* line 510
HealthInProgress == SetPhaseStep("health_in_progress", "health", "in_progress", "current_phase")

\* lines 519-534, and the return of update_deployment_status
UpdateCurrentPhase ==
    /\ pc = "current_phase"
    /\ current_phase_index' = CurrentPhaseIndex(phase_status)
    /\ locals' = NoLocals
    /\ pc' = "interval"
    /\ Section
    /\ UNCHANGED << config, phase_status, phase_complete_sticky, deployment_complete,
                    resources, stop_thread, poll_interval,
                    cycle_empty, render_vars >>

\* variant: the load balancer is looked at before the targets
PollIntervalOf_NlbFirst(status, complete) ==
    IF complete THEN 100
    ELSE IF status["nlb"] = "in_progress" THEN 15
    ELSE IF status["targets"] = "in_progress" \/ status["health"] = "in_progress" THEN 10
    ELSE IF \E k \in PhaseKeys : status[k] = "in_progress" THEN 20
    ELSE 30

\* lines 549-562, in tenths of a second
PollIntervalOf(status, complete) ==
    IF complete THEN 100
    ELSE IF status["targets"] = "in_progress" \/ status["health"] = "in_progress" THEN 10
    ELSE IF status["nlb"] = "in_progress" THEN 15
    ELSE IF \E k \in PhaseKeys : status[k] = "in_progress" THEN 20
    ELSE 30

ChooseInterval ==
    /\ pc = "interval"
    /\ poll_interval' = PollIntervalOf(phase_status, deployment_complete)
    /\ pc' = "wait"
    /\ Section
    /\ UNCHANGED << config, shared, stop_thread,
                    locals, cycle_empty, render_vars >>

\* line 564: stop_thread.wait(poll_interval) returns on the signal or on the timeout
Wait ==
    /\ pc = "wait"
    /\ pc' = "loop"
    /\ poll_interval' = 0
    /\ Section
    /\ UNCHANGED << config, shared, stop_thread, locals, cycle_empty, render_vars >>

Updater ==
    \/ AcquireLock
    \/ BackgroundLoop \/ PollTick \/ VpcCheck \/ VpcQuery \/ VpcMerge \/ SetNetworking
    \/ SetSecurity \/ SubnetsQuery \/ SubnetsMerge \/ WgQuery \/ WgMergeStep \/ EpGuard
    \/ EpQuery \/ EpMergeStep \/ NlbGuard \/ NlbQuery \/ NlbFallback \/ NlbMergeStep
    \/ TgQuery \/ TgFallback \/ TgMissing \/ HealthQuery \/ HealthMerge \/ TargetsComplete
    \/ HealthComplete \/ SetDeploymentComplete \/ TargetsInProgress \/ HealthInProgress
    \/ UpdateCurrentPhase \/ ChooseInterval \/ Wait

\* ------------------------------------------------------------------------
\* The render loop (CursesMonitor.run) and main
\* ------------------------------------------------------------------------
\* lines 756-773: a frame begins by copying the state under the lock and
\* detecting teardown on the copy; pct is what the frame then computes from
\* the copy for its progress bar (862-884)
RenderCopy ==
    /\ render_pc = "frame"
    /\ state_lock = "free"
    /\ LET teardown_mode == TeardownDetected(resources)
       IN snap' = [taken |-> TRUE,
                   phase_status |-> phase_status,
                   current_phase_index |-> current_phase_index,
                   deployment_complete |-> IF teardown_mode THEN FALSE ELSE deployment_complete,
                   resources |-> resources,
                   teardown_mode |-> teardown_mode,
                   pct |-> ProgressPct(phase_status, resources, teardown_mode)]
    /\ render_pc' = "draw"
    /\ UNCHANGED state_lock
    /\ UNCHANGED << config, shared, stop_thread, pc,
                    locals, poll_interval, cycle_empty, exit_message >>

\* lines 778-1114: the rest of the frame draws from the copy only; the copy
\* is overwritten by the next frame.  Since drawing touches none of the
\* shared fields it commutes with every step of the updater, so the model
\* runs it directly after the copy.
RenderDraw ==
    /\ render_pc = "draw"
    /\ snap' = NoSnapshot
    /\ render_pc' = "frame"
    /\ UNCHANGED state_lock
    /\ UNCHANGED << config, shared, stop_thread, pc,
                    locals, poll_interval, cycle_empty, exit_message >>

\* lines 1110-1117: 'q' ends the loop and the finally clause sets stop_thread
Quit ==
    /\ render_pc = "frame"
    /\ render_pc' = "returned"
    /\ stop_thread' = TRUE
    /\ UNCHANGED state_lock
    /\ UNCHANGED << config, shared, pc, locals,
                    poll_interval, cycle_empty, snap, exit_message >>

\* lines 1122-1125 of main: the exit message reads monitor.deployment_complete
MainExit ==
    /\ render_pc = "returned"
    /\ exit_message' = IF deployment_complete THEN "DEPLOYMENT COMPLETE" ELSE "none"
    /\ render_pc' = "done"
    /\ UNCHANGED state_lock
    /\ UNCHANGED << config, shared, stop_thread, pc,
                    locals, poll_interval, cycle_empty, snap >>

Next == Updater

Spec == Init /\ [][Next]_vars

\* the frame is atomic (see RenderDraw); the updater is a daemon thread and
\* ends with the process when main returns
UpdaterStep == render_pc \notin {"draw", "done"} /\ Updater

NextRender == UpdaterStep \/ RenderCopy \/ RenderDraw \/ Quit \/ MainExit

SpecRender == InitRender /\ [][NextRender]_vars

\* the updater thread is scheduled, and each of its steps ends: every
\* call has a timeout and every lock holder releases the lock
SpecRenderFair == SpecRender /\ WF_vars(UpdaterStep)

\* ------------------------------------------------------------------------
\* The progress bar of a frame, over the caches a teardown can leave
\* ------------------------------------------------------------------------
MaxCachedConsumers == 9

\* the cached statuses after the merge of a workgroup list with up to
\* MaxCachedConsumers project consumers, some of them being deleted, and of
\* a load balancer
TeardownCaches ==
    { [InitResources EXCEPT !.producer_status = p, !.nlb_state = n,
                            !.consumer_statuses =
                                [i \in 1..k |-> IF i <= d THEN "DELETING" ELSE "AVAILABLE"]] :
        p \in {None, "AVAILABLE", "DELETING"}, n \in {None, "active", "deleting"},
        k \in 0..MaxCachedConsumers, d \in 0..1 }

\* the render loop draws frames from a cache the updater has filled
InitProgress ==
    /\ consumer_count \in 1..MaxConsumerCount
    /\ control_plane = TeardownPlane
    /\ phase_status \in {InitPhaseStatus, [k \in PhaseKeys |-> "complete"]}
    /\ phase_complete_sticky = [k \in PhaseKeys |-> phase_status[k] = "complete"]
    /\ current_phase_index = CurrentPhaseIndex(phase_status)
    /\ deployment_complete = FALSE
    /\ resources \in TeardownCaches
    /\ stop_thread = FALSE
    /\ pc = "wait"
    /\ locals = NoLocals
    /\ poll_interval = PollIntervalOf(phase_status, deployment_complete)
    /\ cycle_empty = FALSE
    /\ snap = NoSnapshot
    /\ exit_message = "none"
    /\ state_lock = "free"
    /\ render_pc = "frame"
    /\ ManagerOff
    /\ Started
    /\ Idle

SpecProgress == InitProgress /\ [][RenderCopy \/ RenderDraw]_vars

\* ------------------------------------------------------------------------
\* Startup: main() builds the monitor, run() starts the updater thread
\* ------------------------------------------------------------------------
MaxDetected == 2

\* decimal strings and their values
Numerals == << "1", "2", "3", "4" >>

\* CONSUMER_COUNT is unset, a numeral or not a number; terraform.tfvars
\* names a count or does not (-1: no file, or no consumer_count line in it);
\* the count query answers a number or fails (-1)
Environments ==
    [PROJECT_NAME : {None, "airline"},
     CONSUMER_COUNT : {None, "not a number"} \cup { Numerals[i] : i \in 1..MaxDetected },
     tfvars : -1..MaxDetected,
     aws : -1..MaxDetected]

DefaultProjectName == "airline"

DefaultConsumerCount == 3

\* line 42: os.environ.get('PROJECT_NAME', 'airline')
ResolveProjectName(e) ==
    IF e.PROJECT_NAME # None THEN e.PROJECT_NAME ELSE DefaultProjectName

\* int(text): the value, or ValueError
ParseInt(text) ==
    IF \E i \in 1..Len(Numerals) : Numerals[i] = text
    THEN [raised |-> FALSE, value |-> CHOOSE i \in 1..Len(Numerals) : Numerals[i] = text]
    ELSE [raised |-> TRUE, value |-> 0]

\* _detect_consumer_count (98-152)
DetectConsumerCount(e) ==
    IF e.CONSUMER_COUNT # None THEN ParseInt(e.CONSUMER_COUNT)
    ELSE IF e.tfvars >= 0 THEN [raised |-> FALSE, value |-> e.tfvars]
    ELSE IF e.aws > 0 THEN [raised |-> FALSE, value |-> e.aws]
    ELSE [raised |-> FALSE, value |-> DefaultConsumerCount]

InitStartup ==
    /\ InitMonitor
    /\ consumer_count = 1
    /\ control_plane = TeardownPlane
    /\ render_pc = "off"
    /\ ManagerOff
    /\ env \in Environments
    /\ project_name = None
    /\ startup_pc = "main"
    /\ Idle

\* CursesMonitor.__init__, lines 41-43
SetProjectName ==
    /\ startup_pc = "main"
    /\ project_name' = ResolveProjectName(env)
    /\ startup_pc' = "detect"
    /\ UNCHANGED << consumer_count, control_plane, shared, stop_thread, pc, locals,
                    poll_interval, cycle_empty, render_vars, state_lock, env, im_vars, aux_vars >>

\* CursesMonitor.__init__, line 46, to the end of the constructor; an
\* exception of the constructor ends main()
SetConsumerCount ==
    /\ startup_pc = "detect"
    /\ IF DetectConsumerCount(env).raised
       THEN startup_pc' = "failed" /\ UNCHANGED consumer_count
       ELSE startup_pc' = "constructed" /\ consumer_count' = DetectConsumerCount(env).value
    /\ UNCHANGED << control_plane, shared, stop_thread, pc, locals, poll_interval,
                    cycle_empty, render_vars, state_lock, env, project_name, im_vars, aux_vars >>

\* run(), lines 737-739
StartUpdater ==
    /\ startup_pc = "constructed"
    /\ startup_pc' = "running"
    /\ render_pc' = "frame"
    /\ UNCHANGED << consumer_count, control_plane, shared, stop_thread, pc, locals,
                    poll_interval, cycle_empty, snap, exit_message, state_lock, env,
                    project_name, im_vars, aux_vars >>

\* the first moves of the started updater
FirstCycle ==
    /\ startup_pc = "running"
    /\ pc \in {"loop", "poll", "vpc_check"}
    /\ Updater

NextStartup == SetProjectName \/ SetConsumerCount \/ StartUpdater \/ FirstCycle

SpecStartup == InitStartup /\ [][NextStartup]_vars

\* ------------------------------------------------------------------------
\* InfrastructureManager: update_all_data, run_aws_command, set_status
\* ------------------------------------------------------------------------
monitor_all == << consumer_count, control_plane, shared, stop_thread, pc, locals,
                  poll_interval, cycle_empty, render_vars, state_lock, startup_vars, aux_vars >>

\* the monitor is not running
InitIM ==
    /\ InitMonitor
    /\ consumer_count = 1
    /\ control_plane = TeardownPlane
    /\ render_pc = "off"
    /\ InitManager
    /\ Started
    /\ Idle

\* outcomes of subprocess.run in run_aws_command (lines 89-107) when called
\* with show_output=False: JSON on stdout, a non-zero exit, TimeoutExpired,
\* another exception
IMOutcomes == {"json", "nonzero", "timeout", "exception"}

IMWorkgroupLists == { <<>>, << ProducerName >>, << ProducerName, ConsumerNames[1] >> }

IMTargetGroupLists == { <<>>, << "tg-arn" >> }

\* lines 102-107: the failure paths of run_aws_command call set_status before
\* they return None
IMCallsSetStatus(outcome) == outcome \in {"timeout", "exception"}

\* the thread goes to `next`, through set_status when the call failed
IMAfterCall(t, outcome, next) ==
    IF IMCallsSetStatus(outcome)
    THEN /\ im_pc' = [im_pc EXCEPT ![t] = "set_status"]
         /\ im_ret' = [im_ret EXCEPT ![t].status = next]
    ELSE /\ im_pc' = [im_pc EXCEPT ![t] = next]
         /\ UNCHANGED im_ret

\* lines 109-113: set_status takes the lock, which is not reentrant
IMSetStatus(t) ==
    /\ im_pc[t] = "set_status"
    /\ im_lock = "free"
    /\ im_status' = IF im_ret[t].status = "input"
                    THEN [message |-> "Data refreshed", type |-> "success"]
                    ELSE [message |-> "Command failed", type |-> "error"]
    /\ im_pc' = [im_pc EXCEPT ![t] = im_ret[t].status]
    /\ UNCHANGED << im_lock, im_ret, im_todo, im_cache, im_stop, monitor_all >>

\* lines 212-215: update_all_data takes the lock
IMAcquire(t) ==
    /\ im_pc[t] = "update_all_data"
    /\ im_lock = "free"
    /\ im_lock' = t
    /\ im_cache' = [im_cache EXCEPT !.last_update = TRUE]
    /\ im_pc' = [im_pc EXCEPT ![t] = "list_workgroups"]
    /\ UNCHANGED << im_ret, im_todo, im_status, im_stop, monitor_all >>

\* lines 224-229
IMListWorkgroups(t) ==
    /\ im_pc[t] = "list_workgroups"
    /\ \E outcome \in IMOutcomes, wg_list \in IMWorkgroupLists :
         LET found == IF outcome = "json" THEN wg_list ELSE <<>>
         IN /\ im_todo' = [im_todo EXCEPT ![t] = found]
            /\ IMAfterCall(t, outcome,
                           IF found = <<>> THEN "list_namespaces" ELSE "get_workgroup")
    /\ UNCHANGED << im_lock, im_cache, im_status, im_stop, monitor_all >>

\* lines 230-238, one iteration
IMGetWorkgroup(t) ==
    /\ im_pc[t] = "get_workgroup"
    /\ \E outcome \in IMOutcomes :
         /\ im_cache' = IF outcome = "json"
                        THEN [im_cache EXCEPT !.workgroups = @ \cup {Head(im_todo[t])}]
                        ELSE im_cache
         /\ IMAfterCall(t, outcome,
                        IF Len(im_todo[t]) = 1 THEN "list_namespaces" ELSE "get_workgroup")
    /\ im_todo' = [im_todo EXCEPT ![t] = Tail(@)]
    /\ UNCHANGED << im_lock, im_status, im_stop, monitor_all >>

\* lines 241-249
IMListNamespaces(t) ==
    /\ im_pc[t] = "list_namespaces"
    /\ \E outcome \in IMOutcomes :
         /\ im_cache' = IF outcome = "json"
                        THEN [im_cache EXCEPT !.namespaces = @ \cup {"airline-producer"}]
                        ELSE im_cache
         /\ IMAfterCall(t, outcome, "describe_vpcs")
    /\ UNCHANGED << im_lock, im_todo, im_status, im_stop, monitor_all >>

\* lines 253-261
IMDescribeVpcs(t) ==
    /\ im_pc[t] = "describe_vpcs"
    /\ \E outcome \in IMOutcomes, found \in BOOLEAN :
         /\ im_cache' = IF outcome = "json" /\ found
                        THEN [im_cache EXCEPT !.vpc = "vpc-1"]
                        ELSE im_cache
         /\ IMAfterCall(t, outcome,
                        IF outcome = "json" /\ found THEN "describe_subnets" ELSE "describe_nlb")
    /\ UNCHANGED << im_lock, im_todo, im_status, im_stop, monitor_all >>

\* lines 264-270
IMDescribeSubnets(t) ==
    /\ im_pc[t] = "describe_subnets"
    /\ \E outcome \in IMOutcomes :
         /\ im_cache' = IF outcome = "json" THEN [im_cache EXCEPT !.subnets = TRUE] ELSE im_cache
         /\ IMAfterCall(t, outcome, "describe_security_groups")
    /\ UNCHANGED << im_lock, im_todo, im_status, im_stop, monitor_all >>

\* lines 273-279
IMDescribeSecurityGroups(t) ==
    /\ im_pc[t] = "describe_security_groups"
    /\ \E outcome \in IMOutcomes :
         /\ im_cache' = IF outcome = "json"
                        THEN [im_cache EXCEPT !.security_groups = TRUE] ELSE im_cache
         /\ IMAfterCall(t, outcome, "describe_nlb")
    /\ UNCHANGED << im_lock, im_todo, im_status, im_stop, monitor_all >>

\* lines 283-290
IMDescribeNlb(t) ==
    /\ im_pc[t] = "describe_nlb"
    /\ \E outcome \in IMOutcomes, found \in BOOLEAN :
         /\ im_cache' = IF outcome = "json" /\ found
                        THEN [im_cache EXCEPT !.nlb = "nlb-arn"]
                        ELSE im_cache
         /\ IMAfterCall(t, outcome,
                        IF outcome = "json" /\ found THEN "describe_target_groups" ELSE "release")
    /\ UNCHANGED << im_lock, im_todo, im_status, im_stop, monitor_all >>

\* lines 293-300
IMDescribeTargetGroups(t) ==
    /\ im_pc[t] = "describe_target_groups"
    /\ \E outcome \in IMOutcomes, tgs \in IMTargetGroupLists :
         /\ im_cache' = IF outcome = "json"
                        THEN [im_cache EXCEPT !.target_groups = tgs] ELSE im_cache
         /\ im_todo' = [im_todo EXCEPT ![t] = IF outcome = "json" THEN tgs ELSE <<>>]
         /\ IMAfterCall(t, outcome,
                        IF outcome = "json" /\ tgs # <<>> THEN "describe_target_health"
                        ELSE "release")
    /\ UNCHANGED << im_lock, im_status, im_stop, monitor_all >>

\* lines 303-310, one iteration
IMDescribeTargetHealth(t) ==
    /\ im_pc[t] = "describe_target_health"
    /\ \E outcome \in IMOutcomes :
         /\ im_cache' = IF outcome = "json"
                        THEN [im_cache EXCEPT !.target_health = @ \cup {Head(im_todo[t])}]
                        ELSE im_cache
         /\ IMAfterCall(t, outcome,
                        IF Len(im_todo[t]) = 1 THEN "release" ELSE "describe_target_health")
    /\ im_todo' = [im_todo EXCEPT ![t] = Tail(@)]
    /\ UNCHANGED << im_lock, im_status, im_stop, monitor_all >>

\* the end of the with block of update_all_data (line 220), and its return
IMRelease(t) ==
    /\ im_pc[t] = "release"
    /\ im_lock' = "free"
    /\ im_pc' = [im_pc EXCEPT ![t] = im_ret[t].data]
    /\ UNCHANGED << im_ret, im_todo, im_cache, im_status, im_stop, monitor_all >>

\* run(), lines 796-798: the background updater is started after the initial load
IMStartThread ==
    /\ im_pc["main"] = "start_thread"
    /\ im_pc' = [im_pc EXCEPT !["main"] = "input", !["background"] = "loop"]
    /\ UNCHANGED << im_lock, im_ret, im_todo, im_cache, im_status, im_stop, monitor_all >>

\* run(), lines 818-851 and 888-889: 'r' refreshes, 'q' on the menu leaves
IMInput ==
    /\ im_pc["main"] = "input"
    /\ \/ /\ im_pc' = [im_pc EXCEPT !["main"] = "update_all_data"]
          /\ im_ret' = [im_ret EXCEPT !["main"].data = "refreshed"]
          /\ UNCHANGED im_stop
       \/ /\ im_pc' = [im_pc EXCEPT !["main"] = "done"]
          /\ im_stop' = TRUE
          /\ UNCHANGED im_ret
    /\ UNCHANGED << im_lock, im_todo, im_cache, im_status, monitor_all >>

\* run(), line 851
IMRefreshed ==
    /\ im_pc["main"] = "refreshed"
    /\ im_pc' = [im_pc EXCEPT !["main"] = "set_status"]
    /\ im_ret' = [im_ret EXCEPT !["main"].status = "input"]
    /\ UNCHANGED << im_lock, im_todo, im_cache, im_status, im_stop, monitor_all >>

\* background_updater, lines 771-775
IMBackgroundLoop ==
    /\ im_pc["background"] = "loop"
    /\ IF im_stop
       THEN im_pc' = [im_pc EXCEPT !["background"] = "exited"] /\ UNCHANGED im_ret
       ELSE /\ im_pc' = [im_pc EXCEPT !["background"] = "update_all_data"]
            /\ im_ret' = [im_ret EXCEPT !["background"].data = "loop"]
    /\ UNCHANGED << im_lock, im_todo, im_cache, im_status, im_stop, monitor_all >>

IMUpdateAllData(t) ==
    \/ IMAcquire(t) \/ IMListWorkgroups(t) \/ IMGetWorkgroup(t) \/ IMListNamespaces(t)
    \/ IMDescribeVpcs(t) \/ IMDescribeSubnets(t) \/ IMDescribeSecurityGroups(t)
    \/ IMDescribeNlb(t) \/ IMDescribeTargetGroups(t) \/ IMDescribeTargetHealth(t)
    \/ IMRelease(t)

NextIM ==
    \/ \E t \in IMThreads : IMUpdateAllData(t) \/ IMSetStatus(t)
    \/ IMStartThread \/ IMInput \/ IMRefreshed \/ IMBackgroundLoop

SpecIM == InitIM /\ [][NextIM]_vars

\* ------------------------------------------------------------------------
\* Properties
\* ------------------------------------------------------------------------
HealthyCount(health) == Cardinality({ i \in 1..Len(health.targets) : health.targets[i] = "healthy" })

\* C1: once a phase is 'complete' it is 'complete' in every later state,
\* whatever the later polls return.
C1_StickyCompletion ==
    [][\A k \in PhaseKeys : phase_status[k] = "complete" => phase_status'[k] = "complete"]_vars

\* a complete endpoint phase whose endpoint was later polled as CREATING
C1_Witness ==
    /\ phase_status["vpc_endpoints"] = "complete"
    /\ \E n \in DOMAIN resources.endpoint_statuses :
          resources.endpoint_statuses[n].status = "CREATING"

\* C2: a cycle whose queries all return nothing leaves resources, the phase
\* statuses, the sticky flags, the phase pointer and deployment_complete as
\* they were: no step taken while the cycle is still empty changes them.
C2_EmptyPollsIdempotent ==
    [][(cycle_empty /\ cycle_empty') => UNCHANGED shared]_vars

\* the end of an empty cycle that follows a cycle which populated the state
C2_Witness ==
    /\ pc = "interval"
    /\ cycle_empty
    /\ phase_status["networking"] = "complete"
    /\ resources.producer_status # None
    /\ resources.consumer_statuses # <<>>

OnlyAvailableConsumers(result) ==
    /\ Truthy(result)
    /\ \A i \in 1..Len(result.rows) :
          /\ ContainsProject(result.rows[i][1])
          /\ ~ContainsProducer(result.rows[i][1])
          /\ result.rows[i][2] = "AVAILABLE"

HealthAnswered == pc = "current_phase" /\ locals.health.kind = "ok"

\* C4: with expected = consumer_count x 3, a cycle that read the target
\* health ends with targets and health complete and deployment_complete set
\* when healthy >= expected; the targets phase, the health phase and
\* deployment_complete only become complete/set in a cycle whose healthy
\* count is >= expected; with healthy = expected - 1 and neither phase
\* complete, both are in_progress and deployment_complete is unset.
C4_TargetThreshold ==
    /\ []((HealthAnswered /\ HealthyCount(locals.health) >= consumer_count * ReplicasPerConsumer)
            => (/\ phase_status["targets"] = "complete"
                /\ phase_status["health"] = "complete"
                /\ deployment_complete))
    /\ []((HealthAnswered /\ HealthyCount(locals.health) = consumer_count * ReplicasPerConsumer - 1
            /\ phase_status["targets"] # "complete" /\ phase_status["health"] # "complete")
            => (/\ phase_status["targets"] = "in_progress"
                /\ phase_status["health"] = "in_progress"
                /\ ~deployment_complete))
    /\ [][(\/ phase_status["targets"] # "complete" /\ phase_status'["targets"] = "complete"
           \/ phase_status["health"] # "complete" /\ phase_status'["health"] = "complete"
           \/ ~deployment_complete /\ deployment_complete')
          => (locals.health.kind = "ok"
              /\ HealthyCount(locals.health) >= consumer_count * ReplicasPerConsumer)]_vars

\* the cycle that read exactly the expected number of healthy targets
C4_Witness ==
    /\ HealthAnswered
    /\ HealthyCount(locals.health) = consumer_count * ReplicasPerConsumer
    /\ deployment_complete
    /\ phase_status["targets"] = "complete"

\* the cycle that read one healthy target less than expected
C4_WitnessBelow ==
    /\ HealthAnswered
    /\ HealthyCount(locals.health) = consumer_count * ReplicasPerConsumer - 1
    /\ phase_status["targets"] = "in_progress"
    /\ phase_status["health"] = "in_progress"
    /\ ~deployment_complete

EndpointCache == << resources.vpc_endpoints, resources.endpoint_statuses >>

\* C6: the endpoint query is in flight only while consumer_workgroups reads
\* 'complete', and the vpc_endpoints status and the cached endpoints change
\* only in the merge of that query.
C6_OrderingGuard ==
    /\ [](pc \in {"ep_query", "ep_merge"} => phase_status["consumer_workgroups"] = "complete")
    /\ [][(phase_status'["vpc_endpoints"] # phase_status["vpc_endpoints"]
             \/ EndpointCache' # EndpointCache)
          => (pc = "ep_merge" /\ phase_status["consumer_workgroups"] = "complete")]_vars

\* a cycle that got workgroups, skipped the endpoint query and kept old endpoint data
C6_Witness ==
    /\ pc = "nlb_guard"
    /\ Truthy(locals.workgroups)
    /\ phase_status["consumer_workgroups"] = "in_progress"
    /\ locals.endpoints = NoneResult

\* C7: a match returned by the contains query after an empty exact-name
\* query reaches the same merge, as the same value of nlbs (tgs), as a
\* match returned by the exact-name query.
C7_FallbackMatch ==
    /\ [][(pc = "nlb_query" /\ Truthy(locals'.nlb_exact))
            => (pc' = "nlb_merge" /\ locals'.nlbs = locals'.nlb_exact)]_vars
    /\ [][(pc = "nlb_fallback" /\ Truthy(locals'.nlb_fallback))
            => (pc' = "nlb_merge" /\ locals'.nlbs = locals'.nlb_fallback)]_vars
    /\ [][(pc = "tg_query" /\ Truthy(locals'.tg_exact))
            => (pc' = "health_query" /\ locals'.tgs = locals'.tg_exact)]_vars
    /\ [][(pc = "tg_fallback" /\ Truthy(locals'.tg_fallback))
            => (pc' = "health_query" /\ locals'.tgs = locals'.tg_fallback)]_vars

\* the load balancer found by the contains query has been merged
C7_Witness ==
    /\ pc = "tg_query"
    /\ IsEmptyResult(locals.nlb_exact)
    /\ Truthy(locals.nlb_fallback)
    /\ resources.nlb_state = locals.nlb_fallback.rows[1][1]
    /\ phase_status["nlb"] = "complete"

\* C8: no failure of a control-plane call ends the background updater.
C8_NoExceptionEscapes == pc # "crashed"

\* C5: a copy of a cache that holds a DELETING workgroup is published with
\* teardown on and deployment-complete off, and the exit message does not
\* announce a complete deployment while the cache holds one.
C5_TeardownPublished ==
    /\ (snap.taken /\ TeardownDetected(snap.resources))
         => (snap.teardown_mode /\ ~snap.deployment_complete)
    /\ (render_pc = "done" /\ TeardownDetected(resources))
         => exit_message # "DEPLOYMENT COMPLETE"

\* C9: every copy the render loop takes is consistent: networking complete
\* after a direct VPC match comes with security complete, targets complete
\* comes with health complete, and both complete come with deployment_complete.
C9_SnapshotConsistent ==
    snap.taken =>
      /\ (snap.phase_status["networking"] = "complete" /\ snap.resources.vpc = "vpc-1")
           => snap.phase_status["security"] = "complete"
      /\ snap.phase_status["targets"] = "complete" => snap.phase_status["health"] = "complete"
      /\ (snap.phase_status["targets"] = "complete" /\ snap.phase_status["health"] = "complete"
            /\ ~snap.teardown_mode)
           => snap.deployment_complete

\* C10: update_all_data always returns and releases the lock: no thread
\* waits for state_lock while holding it itself (such a wait never ends).
C10_NoIndefiniteBlocking ==
    \A t \in IMThreads : ~(im_pc[t] = "set_status" /\ im_lock = t)

\* C11: while a control-plane call of the updater is in flight the lock is
\* free, and a render loop that is about to copy the state can do so.
C11_NoCallUnderLock ==
    pc \in CallLabels =>
      /\ state_lock = "free"
      /\ render_pc = "frame" => ENABLED RenderCopy

\* the render loop has copied the state while the subnet query, which
\* follows three critical sections, is in flight
C11_Witness ==
    /\ pc = "subnets_query"
    /\ snap.taken
    /\ snap.resources.vpc = "vpc-1"
    /\ snap.phase_status["security"] = "complete"

\* C12: with stop_thread set, the loop test leads to the exit and to no new
\* cycle; the thread exits from the loop test only, never from inside a
\* cycle; and once stop_thread is set the thread ends (it exits, or dies of an
\* exception, or the process ends with main).
C12_CooperativeShutdown ==
    /\ [][(stop_thread /\ pc = "loop" /\ pc' # pc) => pc' = "exited"]_vars
    /\ [][(pc' = "poll" /\ pc # "poll") => ~stop_thread]_vars
    /\ [][(pc' = "exited" /\ pc # "exited") => (pc = "loop" /\ stop_thread)]_vars
    /\ (stop_thread ~> (pc \in {"exited", "crashed"} \/ render_pc = "done"))

\* the signal arrived during the cycle that completed the deployment, the
\* cycle ran to its end and the loop exited
C12_Witness ==
    /\ stop_thread
    /\ pc = "exited"
    /\ deployment_complete
    /\ current_phase_index = Len(PHASES) - 1

\* the cached workgroup fields
WgCache ==
    [producer_workgroup |-> resources.producer_workgroup,
     producer_status |-> resources.producer_status,
     consumer_workgroups |-> resources.consumer_workgroups,
     consumer_statuses |-> resources.consumer_statuses]

IsProjectProducer(row) == ContainsProject(row[1]) /\ ContainsProducer(row[1])

IsProjectConsumer(row) == ContainsProject(row[1]) /\ ~ContainsProducer(row[1])

IsAvailableConsumer(row) == IsProjectConsumer(row) /\ row[2] = "AVAILABLE"

NameOf(row) == row[1]

Names(rows) == [i \in 1..Len(rows) |-> NameOf(rows[i])]

\* what a list of workgroup rows says about the project: the producer in it,
\* the status of every consumer in it, the available consumers in its order
Described(rows) ==
    LET producers == SelectSeq(rows, IsProjectProducer)
        consumers == SelectSeq(rows, IsProjectConsumer)
        last(name) == CHOOSE i \in 1..Len(consumers) :
                         /\ consumers[i][1] = name
                         /\ \A j \in 1..Len(consumers) : consumers[j][1] = name => j <= i
    IN [producer_workgroup |-> IF producers = <<>> THEN None ELSE producers[Len(producers)][1],
        producer_status |-> IF producers = <<>> THEN None ELSE producers[Len(producers)][2],
        consumer_workgroups |-> Names(SelectSeq(rows, IsAvailableConsumer)),
        consumer_statuses |->
            [n \in { consumers[i][1] : i \in 1..Len(consumers) } |-> consumers[last(n)][2]]]

\* C13 as stated: after the workgroup poll of a cycle has succeeded, with a
\* list that may be empty, the cached workgroup fields describe exactly the
\* project workgroups of the result.
C13_WholesaleReplace ==
    (pc = "ep_guard" /\ locals.workgroups.ok) => WgCache = Described(locals.workgroups.rows)

\* C13 amended: after a workgroup poll that returned a non-empty list the
\* cached workgroup fields describe exactly the project workgroups of the
\* result; they change in no other step, so a failed poll and a poll that
\* returned an empty list leave them as they were.
C13_ReplaceOnData ==
    /\ []((pc = "ep_guard" /\ Truthy(locals.workgroups))
            => WgCache = Described(locals.workgroups.rows))
    /\ [][WgCache' # WgCache => (pc = "wg_merge" /\ Truthy(locals.workgroups))]_vars

\* a producer that was seen available in an earlier cycle is missing from
\* the list of this cycle and is no longer cached
C13_Witness ==
    /\ pc = "ep_guard"
    /\ Truthy(locals.workgroups)
    /\ phase_status["producer_workgroup"] = "complete"
    /\ Described(locals.workgroups.rows).producer_workgroup = None
    /\ resources.producer_workgroup = None
    /\ resources.consumer_statuses # <<>>

\* the cached endpoint names, as a set, and the available ones
EndpointsDescribed(rows) ==
    [names |-> { rows[i][1] : i \in 1..Len(rows) },
     active |-> { rows[i][1] : i \in { j \in 1..Len(rows) : rows[j][2] = "ACTIVE" } }]

\* C14: a query that returns nothing sends the cycle on to the next family:
\* after a failed VPC query the workgroup query is issued, after a failed
\* workgroup query the endpoint guard is evaluated and, with
\* consumer_workgroups complete, the endpoint query is issued, after a failed
\* endpoint query the load-balancer guard is evaluated; and at the end of
\* such a cycle the results of the other families have been merged.
C14_FailureIsolated ==
    /\ [][(pc = "vpc_query" /\ pc' # pc /\ ~Truthy(locals'.vpcs)) => pc' = "wg_query"]_vars
    /\ [][(pc = "wg_query" /\ pc' # pc /\ ~Truthy(locals'.workgroups)) => pc' = "ep_guard"]_vars
    /\ [][(pc = "ep_guard" /\ pc' # pc /\ phase_status["consumer_workgroups"] = "complete")
            => pc' = "ep_query"]_vars
    /\ [][(pc = "ep_query" /\ pc' # pc /\ ~Truthy(locals'.endpoints)) => pc' = "nlb_guard"]_vars
    /\ []((pc = "current_phase" /\ ~Truthy(locals.vpcs) /\ Truthy(locals.workgroups))
            => WgCache = Described(locals.workgroups.rows))
    /\ []((pc = "current_phase" /\ ~Truthy(locals.workgroups) /\ Truthy(locals.endpoints))
            => /\ DOMAIN resources.endpoint_statuses
                    = EndpointsDescribed(locals.endpoints.rows).names
               /\ { resources.vpc_endpoints[i] : i \in 1..Len(resources.vpc_endpoints) }
                    = EndpointsDescribed(locals.endpoints.rows).active)

\* the workgroup query of the cycle failed and its endpoint query was
\* answered and merged
C14_Witness ==
    /\ pc = "current_phase"
    /\ locals.workgroups = NoneResult
    /\ Truthy(locals.endpoints)
    /\ resources.vpc_endpoints # <<>>
    /\ phase_status["vpc_endpoints"] = "complete"

\* C15: a record with a null field does not end the cycle with an exception:
\* the updater is never dead after a workgroup list with a null name.
C15_AbsentFieldsDefault ==
    ~(pc = "crashed" /\ HasNullName(locals.workgroups.rows))

\* C16: with no project identifier in the environment the monitor is not
\* constructed and its updater is not started.
C16_FailFast ==
    env.PROJECT_NAME = None => startup_pc \in {"main", "detect", "failed"}

\* the status of the project's producer in a list of workgroup rows
ProducerStatusIn(rows) == Described(rows).producer_status

\* C17: after the merge of a workgroup list that holds the project's
\* producer, a producer that is CREATING or MODIFYING has left
\* producer_namespace complete and producer_workgroup in_progress (or
\* complete, when it was complete before), and a producer that is AVAILABLE
\* has left both complete.
C17_ProducerRule ==
    (pc = "ep_guard" /\ Truthy(locals.workgroups))
    => /\ ProducerStatusIn(locals.workgroups.rows) \in {"CREATING", "MODIFYING"}
            => /\ phase_status["producer_namespace"] = "complete"
               /\ phase_status["producer_workgroup"] \in {"in_progress", "complete"}
       /\ ProducerStatusIn(locals.workgroups.rows) = "AVAILABLE"
            => /\ phase_status["producer_namespace"] = "complete"
               /\ phase_status["producer_workgroup"] = "complete"

CountConsumers(rows, status) ==
    Cardinality({ i \in 1..Len(rows) : IsProjectConsumer(rows[i]) /\ rows[i][2] = status })

\* C18: after the merge of a non-empty workgroup list, consumer_workgroups
\* is complete when at least consumer_count project consumers are AVAILABLE
\* and none is CREATING, and in_progress (or still complete from before)
\* when a project consumer is CREATING; a list without project consumers
\* leaves it as it was.
C18_ConsumerRule ==
    [][(pc = "wg_merge" /\ pc' = "ep_guard")
         => LET rows == locals.workgroups.rows
            IN /\ (CountConsumers(rows, "AVAILABLE") >= consumer_count
                     /\ CountConsumers(rows, "CREATING") = 0)
                    => phase_status'["consumer_workgroups"] = "complete"
               /\ (CountConsumers(rows, "CREATING") > 0
                     /\ phase_status["consumer_workgroups"] # "complete")
                    => phase_status'["consumer_workgroups"] = "in_progress"
               /\ (\A i \in 1..Len(rows) : ~IsProjectConsumer(rows[i]))
                    => phase_status'["consumer_workgroups"]
                         = phase_status["consumer_workgroups"]]_vars

ActiveEndpoints(rows) ==
    Cardinality({ i \in 1..Len(rows) : ContainsProject(rows[i][1]) /\ rows[i][2] = "ACTIVE" })

\* C19: at the end of a cycle whose endpoint query returned at least
\* consumer_count project endpoints in status ACTIVE, vpc_endpoints is complete.
C19_EndpointRule ==
    (pc = "current_phase" /\ Truthy(locals.endpoints)
        /\ ActiveEndpoints(locals.endpoints.rows) >= consumer_count)
    => phase_status["vpc_endpoints"] = "complete"

\* C20: a load-balancer query is in flight only while vpc_endpoints reads
\* complete; the merge of a found load balancer makes the nlb phase complete
\* for state active, in_progress for provisioning and active_impaired unless
\* it was complete, and leaves it alone for any other state; no other step
\* changes the nlb phase.
C20_LoadBalancerRule ==
    /\ [](pc \in {"nlb_query", "nlb_fallback"} => phase_status["vpc_endpoints"] = "complete")
    /\ [][(pc = "nlb_merge" /\ pc' = "tg_query")
            => LET nlb_state == locals.nlbs.rows[1][1]
               IN phase_status'["nlb"] =
                     IF nlb_state = "active" THEN "complete"
                     ELSE IF nlb_state \in {"provisioning", "active_impaired"}
                               /\ phase_status["nlb"] # "complete"
                     THEN "in_progress"
                     ELSE phase_status["nlb"]]_vars
    /\ [][phase_status'["nlb"] # phase_status["nlb"] => pc = "nlb_merge"]_vars

\* a load balancer that was provisioning is now reported as failed, and
\* the nlb phase is still in_progress
C20_Witness ==
    /\ pc = "tg_query"
    /\ locals.nlbs.rows[1][1] = "failed"
    /\ resources.nlb_state = "failed"
    /\ phase_status["nlb"] = "in_progress"

\* C21: the target-group and target-health queries are reached only in a
\* cycle whose load-balancer lookup (exact or fallback) found a load
\* balancer; a step of a cycle without one changes neither the targets and
\* health phases, nor the cached target counts, nor deployment_complete.
C21_TargetGuard ==
    [][/\ pc' \in {"tg_query", "tg_fallback", "health_query"} => Truthy(locals'.nlbs)
       /\ ~Truthy(locals.nlbs)
            => /\ phase_status'["targets"] = phase_status["targets"]
               /\ phase_status'["health"] = phase_status["health"]
               /\ resources'.healthy_targets = resources.healthy_targets
               /\ resources'.total_targets = resources.total_targets
               /\ resources'.target_states = resources.target_states
               /\ deployment_complete' = deployment_complete]_vars

\* a cycle that looked for the load balancer and found none, after a cycle
\* that had counted healthy targets
C21_Witness ==
    /\ pc = "current_phase"
    /\ phase_status["vpc_endpoints"] = "complete"
    /\ ~Truthy(locals.nlbs)
    /\ resources.healthy_targets > 0
    /\ phase_status["targets"] = "in_progress"

\* C22: when a cycle has ended, current_phase_index is the index of the
\* first phase in PHASES order that is in_progress; without one, of the
\* first phase that is pending; without one, of the last phase.
C22_CurrentPhasePointer ==
    pc \in {"interval", "wait"} =>
        LET running == { i \in 0..(Len(PHASES) - 1) : phase_status[PHASES[i + 1]] = "in_progress" }
            waiting == { i \in 0..(Len(PHASES) - 1) : phase_status[PHASES[i + 1]] = "pending" }
            least(S) == current_phase_index \in S /\ \A j \in S : current_phase_index <= j
        IN IF running # {} THEN least(running)
           ELSE IF waiting # {} THEN least(waiting)
           ELSE current_phase_index = Len(PHASES) - 1

\* a cycle has ended with the consumers in progress behind a pending producer
C22_Witness ==
    /\ pc = "wait"
    /\ phase_status["producer_namespace"] = "pending"
    /\ phase_status["consumer_workgroups"] = "in_progress"
    /\ current_phase_index = 5

\* C23: the interval the updater sleeps after a cycle is, in tenths of a
\* second, 100 when deployment_complete is set; else 10 when targets or
\* health is in_progress; else 15 when nlb is in_progress; else 20 when any
\* phase is in_progress; else 30.  It depends on the state at the end of
\* the cycle only.
C23_AdaptivePolling ==
    pc = "wait" =>
        poll_interval =
            CASE deployment_complete -> 100
              [] ~deployment_complete
                   /\ "in_progress" \in {phase_status["targets"], phase_status["health"]} -> 10
              [] ~deployment_complete
                   /\ "in_progress" \notin {phase_status["targets"], phase_status["health"]}
                   /\ phase_status["nlb"] = "in_progress" -> 15
              [] ~deployment_complete
                   /\ "in_progress" \notin {phase_status["targets"], phase_status["health"],
                                            phase_status["nlb"]}
                   /\ (\E k \in PhaseKeys : phase_status[k] = "in_progress") -> 20
              [] OTHER -> 30

\* the updater sleeps one second while the targets register behind a load
\* balancer that is still provisioning
C23_Witness ==
    /\ pc = "wait"
    /\ phase_status["nlb"] = "in_progress"
    /\ phase_status["targets"] = "in_progress"
    /\ poll_interval = 10

\* C24: the percentage a frame shows is, outside teardown mode,
\* floor(100 * complete phases / 10); in teardown mode it is
\* floor(100 * still-existing resources / 10), where the producer, the load
\* balancer and the VPC stand for two phases each and every consumer that is
\* not being deleted for one.
C24_PercentComplete ==
    snap.taken =>
        LET res == snap.resources
            complete == Cardinality({ k \in PhaseKeys : snap.phase_status[k] = "complete" })
            existing ==
                (IF res.producer_status \in {"AVAILABLE", "CREATING", "MODIFYING"} THEN 2 ELSE 0)
                + Cardinality({ n \in DOMAIN res.consumer_statuses :
                                  res.consumer_statuses[n] \in {"AVAILABLE", "CREATING", "MODIFYING"} })
                + (IF res.nlb_state \in NlbStates THEN 2 ELSE 0)
                + (IF res.vpc # None THEN 2 ELSE 0)
        IN IF snap.teardown_mode
           THEN snap.pct = (100 * existing) \div 10
           ELSE snap.pct = (100 * complete) \div 10

C26_ForeignIgnored ==
    [][(pc = "wg_merge" /\ pc' = "ep_guard")
         => LET own(row) == ContainsProject(row[1])
                rows == SelectSeq(locals.workgroups.rows, own)
                alone == IF rows = <<>> THEN St ELSE WgMerge(St, rows, consumer_count)
            IN /\ phase_status' = alone.ph.status
               /\ resources' = alone.res]_vars

\* C27: the producer_workgroup phase becomes complete only in the merge of
\* a workgroup list that holds the project's producer with status AVAILABLE.
C27_ProducerNeedsProducer ==
    [][(phase_status["producer_workgroup"] # "complete"
          /\ phase_status'["producer_workgroup"] = "complete")
         => /\ pc = "wg_merge"
            /\ \E i \in 1..Len(locals.workgroups.rows) :
                  /\ IsProjectProducer(locals.workgroups.rows[i])
                  /\ locals.workgroups.rows[i][2] = "AVAILABLE"]_vars

\* C28: in every state, vpc_endpoints complete implies consumer_workgroups
\* complete, nlb complete implies vpc_endpoints complete,
\* consumer_workgroups complete implies networking and security complete,
\* and producer_workgroup complete implies producer_namespace complete.
C28_GuardOrder ==
    LET done(k) == phase_status[k] = "complete"
    IN /\ done("vpc_endpoints") => done("consumer_workgroups")
       /\ done("nlb") => done("vpc_endpoints")
       /\ done("consumer_workgroups") => done("networking") /\ done("security")
       /\ done("producer_workgroup") => done("producer_namespace")

\* the load balancer is complete behind a VPC that no query has described
C28_Witness ==
    /\ phase_status["nlb"] = "complete"
    /\ phase_status["producer_workgroup"] = "complete"
    /\ resources.vpc = "inferred-from-workgroups"

\* C29 as claimed: no step moves any phase down in the order
\* pending < in_progress < complete.
C29_NoRegression ==
    [][\A k \in PhaseKeys :
          LET rank(x) == CASE x = "pending" -> 0 [] x = "in_progress" -> 1 [] OTHER -> 2
          IN rank(phase_status'[k]) >= rank(phase_status[k])]_vars

\* C29: no step moves a phase other than vpc_endpoints down in the order
\* pending < in_progress < complete; vpc_endpoints goes down only from
\* in_progress to pending, and only in the merge of an endpoint result in
\* which no project endpoint is CREATING and fewer than consumer_count are
\* ACTIVE.
C29_NoRegressionButEndpoints ==
    [][\A k \in PhaseKeys :
          LET rank(x) == CASE x = "pending" -> 0 [] x = "in_progress" -> 1 [] OTHER -> 2
          IN rank(phase_status'[k]) < rank(phase_status[k])
               => /\ k = "vpc_endpoints"
                  /\ phase_status[k] = "in_progress"
                  /\ pc = "ep_merge"
                  /\ \A i \in 1..Len(locals.endpoints.rows) :
                        locals.endpoints.rows[i][2] # "CREATING"
                  /\ ActiveEndpoints(locals.endpoints.rows) < consumer_count]_vars

\* the targets stay in progress through a cycle whose health answer lists
\* no target at all
C29_Witness ==
    /\ pc = "current_phase"
    /\ locals.health.kind = "ok"
    /\ Len(locals.health.targets) = 0
    /\ phase_status["targets"] = "in_progress"

\* C30: in every state and for every phase, phase_complete_sticky is set
\* exactly when the phase status is complete, and the status is one of
\* pending, in_progress and complete.
C30_StickyMirrorsStatus ==
    \A k \in PhaseKeys :
        /\ phase_complete_sticky[k] <=> (phase_status[k] = "complete")
        /\ phase_status[k] \in {"pending", "in_progress", "complete"}

\* a phase is complete and flagged while a later poll reports its load
\* balancer as failed, next to a phase in progress and one that is pending
C30_Witness ==
    /\ phase_status["nlb"] = "complete"
    /\ phase_complete_sticky["nlb"]
    /\ resources.nlb_state = "failed"
    /\ phase_status["targets"] = "in_progress"
    /\ ~phase_complete_sticky["targets"]
    /\ phase_status["health"] = "pending"

\* C33: the VPC query is in flight only while networking is not complete,
\* the subnet query only in the cycle whose VPC query has just found the
\* VPC, and no step replaces a described VPC id by the placeholder
\* 'inferred-from-workgroups'.
C33_NetworkFrame ==
    [][/\ pc' = "vpc_query" => phase_status'["networking"] # "complete"
       /\ pc' = "subnets_query" => Truthy(locals'.vpcs)
       /\ resources.vpc \notin {None, "inferred-from-workgroups"}
            => resources'.vpc = resources.vpc]_vars

\* a cycle goes from the check straight to the workgroups: the network is
\* complete and the VPC id of the direct match is still cached after the
\* workgroups have been merged
C33_Witness ==
    /\ pc = "ep_guard"
    /\ locals.vpcs = NoneResult
    /\ Truthy(locals.workgroups)
    /\ phase_status["networking"] = "complete"
    /\ resources.vpc = "vpc-1"

\* C31: the percentage a frame shows lies between 0 and 100, in normal and
\* in teardown mode, for every cache.
C31_PercentInRange ==
    snap.taken => snap.pct \in 0..100

\* ------------------------------------------------------------------------
\* The objects behind self.resources: who holds which list or dict
\* ------------------------------------------------------------------------
MaxObjects == 6
MaxRows == 2

\* keys whose list or dict is emptied and filled again row by row (lines
\* 301-315 and 387-404) and keys that are given a finished object (lines
\* 283-284 and 497)
RebuiltKeys == {"consumer_workgroups", "vpc_endpoints"}

\* lines 301-302, 387-388: the key is given a new empty object
Rebuild_InPlace(a, f) ==
    [a EXCEPT !.heap[a.refs[f]] = <<>>]

Rebuild(a, f) ==
    [a EXCEPT !.heap = Append(@, <<>>), !.refs[f] = Len(a.heap) + 1]

\* lines 293, 384: the updater takes state_lock and empties the key
AliasEnter ==
    /\ alias.at = "idle" /\ alias.lock = "free"
    /\ Len(alias.heap) < MaxObjects
    /\ \E f \in RebuiltKeys :
          alias' = [Rebuild(alias, f) EXCEPT !.at = f, !.lock = "updater"]
    /\ UNCHANGED << monitor_vars, im_vars, startup_vars, im_ui, cred, fw >>

\* lines 314-315, 397-404: a row is added to the object the key refers to
AliasAppend ==
    /\ alias.at \in RebuiltKeys
    /\ Len(alias.heap[alias.refs[alias.at]]) < MaxRows
    /\ alias' = [alias EXCEPT !.heap[alias.refs[alias.at]] = Append(@, Len(@) + 1)]
    /\ UNCHANGED << monitor_vars, im_vars, startup_vars, im_ui, cred, fw >>

\* the end of the with block
AliasLeave ==
    /\ alias.at \in RebuiltKeys
    /\ alias' = [alias EXCEPT !.at = "idle", !.lock = "free"]
    /\ UNCHANGED << monitor_vars, im_vars, startup_vars, im_ui, cred, fw >>

\* lines 478-497: state_counts is built outside the lock and assigned in it
AliasAssign ==
    /\ alias.at = "idle" /\ alias.lock = "free"
    /\ Len(alias.heap) < MaxObjects
    /\ \E n \in 1..MaxRows :
          alias' = [alias EXCEPT !.heap = Append(@, [i \in 1..n |-> i]),
                                 !.refs.target_states = Len(alias.heap) + 1]
    /\ UNCHANGED << monitor_vars, im_vars, startup_vars, im_ui, cred, fw >>

\* lines 757-764: the render loop copies self.resources under state_lock
AliasCopy ==
    /\ alias.lock = "free" /\ ~alias.snap.taken
    /\ alias' = [alias EXCEPT !.snap = [taken |-> TRUE, refs |-> alias.refs,
                     seen |-> [f \in DOMAIN alias.refs |-> alias.heap[alias.refs[f]]]]]
    /\ UNCHANGED << monitor_vars, im_vars, startup_vars, im_ui, cred, fw >>

\* the frame is drawn from the copy, which is dropped at the next frame
AliasDraw ==
    /\ alias.snap.taken
    /\ alias' = [alias EXCEPT !.snap = AliasStart.snap]
    /\ UNCHANGED << monitor_vars, im_vars, startup_vars, im_ui, cred, fw >>

NextAlias == AliasEnter \/ AliasAppend \/ AliasLeave \/ AliasAssign \/ AliasCopy \/ AliasDraw

\* the monitor as constructed; only the objects behind self.resources move
InitParts ==
    /\ InitProgress
    /\ consumer_count = 1
    /\ phase_status = InitPhaseStatus
    /\ resources = InitResources

SpecAlias == InitParts /\ [][NextAlias]_vars

\* C32: every list or dict the render loop's copy refers to still holds
\* what it held when the copy was taken, whatever the updater did since
C32_SnapshotStable ==
    alias.snap.taken =>
        \A f \in DOMAIN alias.snap.refs :
            alias.heap[alias.snap.refs[f]] = alias.snap.seen[f]

\* the updater emptied and filled the consumer list again after the copy
C32_Witness ==
    /\ alias.snap.taken
    /\ alias.snap.seen.consumer_workgroups # <<>>
    /\ alias.refs.consumer_workgroups # alias.snap.refs.consumer_workgroups
    /\ alias.heap[alias.refs.consumer_workgroups] # alias.snap.seen.consumer_workgroups
    /\ alias.refs.target_states # alias.snap.refs.target_states

\* ------------------------------------------------------------------------
\* InfrastructureManager: the capacity editor
\* ------------------------------------------------------------------------
NoKey == -1
ESC == 27
ENTER == 10
BACKSPACE == 127
MinCapacity == 8
MaxCapacity == 512
MaxEditLen == 3

\* ord('0'), ord('b'), ord('e')
Ord0 == 48
OrdB == 98
OrdE == 101

\* the digits a user types in the model, and the capacities a workgroup has
TypedDigits == {0, 1, 6}
BaseCapacities == {32, 128}

Keys == {NoKey, ESC, ENTER, BACKSPACE, OrdB, OrdE} \cup { Ord0 + d : d \in TypedDigits }

\* str(n) for n >= 0, as the sequence of its decimal digits
RECURSIVE StrOfInt(_)
StrOfInt(n) == IF n < 10 THEN << n >> ELSE Append(StrOfInt(n \div 10), n % 10)

\* int(s) for a string of decimal digits; int("") raises ValueError
RECURSIVE IntOfStr(_)
IntOfStr(b) == IF b = <<>> THEN 0 ELSE 10 * IntOfStr(SubSeq(b, 1, Len(b) - 1)) + b[Len(b)]

\* lines 115-135: update_workgroup_capacity; ok is the outcome of the AWS
\* call, after which update_workgroups reads the capacity again
UpdateCapacity(u, capacity, ok) ==
    [u EXCEPT !.issued = capacity,
              !.status = IF ok THEN "Successfully updated" ELSE "Error",
              !.base = IF ok THEN capacity ELSE @]

\* line 753: chr(key) raises ValueError for a key below 0
ChrRaises(key) == key < 0

\* lines 728-754
handle_edit_input(u, key, ok) ==
    IF key = ESC
    THEN [u EXCEPT !.edit_mode = "NONE", !.edit_buffer = <<>>, !.view = "WORKGROUPS"]
    ELSE IF key = ENTER
    THEN IF u.edit_mode # "CAPACITY" THEN u
         ELSE IF u.edit_buffer = <<>> THEN [u EXCEPT !.status = "Invalid number"]
         ELSE IF IntOfStr(u.edit_buffer) \in MinCapacity..MaxCapacity
         THEN [UpdateCapacity(u, IntOfStr(u.edit_buffer), ok) EXCEPT
                  !.edit_mode = "NONE", !.edit_buffer = <<>>, !.view = "WORKGROUPS"]
         ELSE [u EXCEPT !.status = "Capacity must be between 8 and 512"]
    ELSE IF key = BACKSPACE
    THEN [u EXCEPT !.edit_buffer = SubSeq(@, 1, Len(@) - 1)]
    ELSE IF ChrRaises(key)
    THEN [u EXCEPT !.raised = TRUE]
    ELSE IF key \in Ord0..(Ord0 + 9) /\ Len(u.edit_buffer) < MaxEditLen
    THEN [u EXCEPT !.edit_buffer = Append(@, key - Ord0)]
    ELSE u

\* lines 701-716: the 'e' key on the selected workgroup, which the cache holds
handle_workgroup_action(u, key) ==
    IF key = OrdE
    THEN [u EXCEPT !.view = "WORKGROUP_EDIT", !.edit_mode = "CAPACITY",
                   !.edit_buffer = StrOfInt(u.base)]
    ELSE u

\* lines 817-878: one turn of the input loop after getch(), which returns
\* NoKey when no key arrives within its timeout
InputTick(key, ok) ==
    /\ ~im_ui.raised
    /\ UNCHANGED << monitor_vars, im_vars, startup_vars, alias, cred, fw >>
    /\ LET u == [im_ui EXCEPT !.key = key, !.turn = 1 - @, !.issued = 0]
       IN  im_ui' =
             IF u.edit_mode # "NONE" THEN handle_edit_input(u, key, ok)
             ELSE IF key = OrdB
             THEN IF u.view # "MENU"
                  THEN [u EXCEPT !.view = "MENU", !.edit_mode = "NONE", !.edit_buffer = <<>>]
                  ELSE u
             ELSE IF key = ENTER
             THEN IF u.view = "MENU" THEN [u EXCEPT !.view = "WORKGROUPS"] ELSE u
             ELSE IF u.view = "WORKGROUPS" THEN handle_workgroup_action(u, key)
             ELSE u

\* the background refresh finds another capacity for the workgroup
CapacityChanges ==
    /\ ~im_ui.raised
    /\ \E c \in BaseCapacities : im_ui' = [im_ui EXCEPT !.base = c]
    /\ UNCHANGED << monitor_vars, im_vars, startup_vars, alias, cred, fw >>

NextEdit ==
    \/ \E key \in Keys, ok \in BOOLEAN : InputTick(key, ok)
    \/ CapacityChanges

SpecEdit == InitParts /\ [][NextEdit]_vars

\* C34: in capacity edit mode a turn without a key changes nothing and
\* raises nothing, edit mode is left only by ESC or by ENTER on a value
\* between 8 and 512, and a capacity is handed to the update only then
C34_EditMode ==
    [][im_ui.edit_mode = "CAPACITY" /\ im_ui'.turn # im_ui.turn =>
          LET valid == /\ im_ui.edit_buffer # <<>>
                       /\ IntOfStr(im_ui.edit_buffer) \in MinCapacity..MaxCapacity
          IN  /\ im_ui'.key = NoKey =>
                    /\ ~im_ui'.raised
                    /\ im_ui'.edit_mode = im_ui.edit_mode
                    /\ im_ui'.edit_buffer = im_ui.edit_buffer
                    /\ im_ui'.view = im_ui.view
              /\ im_ui'.edit_mode = "NONE" =>
                    im_ui'.key = ESC \/ (im_ui'.key = ENTER /\ valid)
              /\ im_ui'.issued # 0 =>
                    /\ im_ui'.key = ENTER /\ valid
                    /\ im_ui'.issued = IntOfStr(im_ui.edit_buffer)]_vars

\* ------------------------------------------------------------------------
\* The monitor's credential refresh
\* ------------------------------------------------------------------------
MaxRefreshes == 4

\* lines 173-230: refresh_aws_credentials; Popen either starts the process
\* and its reader thread or raises
refresh_aws_credentials(c, popen_ok) ==
    IF popen_ok
    THEN [c EXCEPT !.running = @ + 1, !.message = "Refreshing AWS credentials..."]
    ELSE [c EXCEPT !.message = "Credential refresh failed: error"]

\* lines 94-96: the constructor refreshes unless REFRESH_ON_START is not '1'
CredConstruct ==
    /\ ~cred.constructed
    /\ \E on_start \in BOOLEAN, popen_ok \in BOOLEAN :
          cred' = [(IF on_start THEN refresh_aws_credentials(cred, popen_ok) ELSE cred)
                      EXCEPT !.constructed = TRUE]
    /\ UNCHANGED << monitor_vars, im_vars, startup_vars, alias, im_ui, fw >>

\* time passes: 55 minutes after last_credential_refresh
CredDue ==
    /\ cred.constructed /\ ~cred.due
    /\ cred' = [cred EXCEPT !.due = TRUE, !.started = 0]
    /\ UNCHANGED << monitor_vars, im_vars, startup_vars, alias, im_ui, fw >>

\* lines 538-543: the head of one cycle of background_updater
CredCycle ==
    /\ cred.constructed /\ cred.due
    /\ cred.running < MaxRefreshes /\ cred.started < MaxRefreshes
    /\ \E popen_ok \in BOOLEAN :
          cred' = [refresh_aws_credentials(cred, popen_ok) EXCEPT
                      !.started = IF popen_ok THEN @ + 1 ELSE @]
    /\ UNCHANGED << monitor_vars, im_vars, startup_vars, alias, im_ui, fw >>

\* lines 186-218: read_output, when the process ends or 30 s have passed
CredEnds ==
    /\ cred.running > 0
    /\ \E outcome \in {"ok", "failed", "timeout", "exception"} :
          cred' = [cred EXCEPT
                      !.running = @ - 1,
                      !.due = IF outcome = "ok" THEN FALSE ELSE @,
                      !.message = CASE outcome = "ok" -> "AWS credentials refreshed"
                                    [] outcome = "failed" -> "Credential refresh failed"
                                    [] outcome = "timeout" -> "Credential refresh timeout"
                                    [] OTHER -> "Error"]
    /\ UNCHANGED << monitor_vars, im_vars, startup_vars, alias, im_ui, fw >>

NextCred == CredConstruct \/ CredDue \/ CredCycle \/ CredEnds

SpecCred == InitParts /\ [][NextCred]_vars

\* C35: while a refresh is due, background_updater starts at most one
\* refresh process, whether that process is still running or has failed
C35_OncePerDuePeriod ==
    cred.due => cred.started <= 1

\* ------------------------------------------------------------------------
\* The monitor's completion fireworks
\* ------------------------------------------------------------------------
ShownAfterFrames == 120
MinLife == 60
MaxExtraLife == 20

\* line 627: the lives create_firework gives its particles
ParticleLives == {MinLife, MinLife + 10, MinLife + MaxExtraLife}

\* lines 632-670; complete is self.deployment_complete, lives the lives the
\* new particles get
update_fireworks_KeepDead(f, complete, lives) ==
    LET moved == { l - 1 : l \in f.particles }
    IN  IF complete /\ ~f.shown
        THEN [f EXCEPT !.particles = moved \cup (IF f.frame = 0 THEN lives ELSE {}),
                       !.frame = @ + 1,
                       !.shown = f.frame + 1 > ShownAfterFrames]
        ELSE [f EXCEPT !.particles = moved]

update_fireworks(f, complete, lives) ==
    LET moved == { l - 1 : l \in { p \in f.particles : p > 0 } }
    IN  IF complete /\ ~f.shown
        THEN [f EXCEPT !.particles = moved \cup (IF f.frame = 0 THEN lives ELSE {}),
                       !.frame = @ + 1,
                       !.shown = f.frame + 1 > ShownAfterFrames]
        ELSE [f EXCEPT !.particles = moved]

\* line 505: the updater finds every target healthy
FwComplete ==
    /\ ~deployment_complete
    /\ deployment_complete' = TRUE
    /\ UNCHANGED << consumer_count, control_plane, phase_status, phase_complete_sticky,
                    current_phase_index, resources, stop_thread, pc, locals, poll_interval,
                    cycle_empty, snap, render_pc, exit_message, state_lock >>
    /\ UNCHANGED << im_vars, startup_vars, alias, im_ui, cred, fw >>

\* lines 745-1115: one frame of run(): the state is copied unless the
\* fireworks run (757-773), then the fireworks are handled (1087-1105) and
\* the key is read (1110)
FwFrame ==
    /\ ~fw.quit
    /\ \E lives \in (SUBSET ParticleLives) \ {{}}, q \in BOOLEAN :
          LET seen == IF fw.active THEN fw.seen
                      ELSE deployment_complete /\ ~TeardownDetected(resources)
              enter == seen /\ ~fw.shown /\ ~fw.active
              f == IF fw.active \/ enter
                   THEN update_fireworks(fw, deployment_complete, lives)
                   ELSE fw
          IN  fw' = [f EXCEPT !.seen = seen,
                              !.fresh = ~fw.active,
                              !.entered = IF enter THEN @ + 1 ELSE @,
                              !.active = (fw.active \/ enter) /\ ~(f.shown /\ f.particles = {}),
                              !.quit = q]
    /\ UNCHANGED << monitor_vars, im_vars, startup_vars, alias, im_ui, cred >>

NextFw == FwComplete \/ FwFrame

SpecFw == InitParts /\ [][NextFw]_vars

\* run() draws frame after frame until 'q' is read
SpecFwFair == SpecFw /\ WF_vars(FwFrame)

\* C36: fireworks mode is entered once, in the frame that first sees
\* deployment_complete; it lasts at most 120 frames after
\* which fireworks_shown is set with no particle left, the mode is left in
\* that frame and not entered again, and every later frame copies the state
C36_FireworksOnce ==
    /\ [](/\ fw.entered = (IF fw.seen THEN 1 ELSE 0)
          /\ fw.active => (fw.frame \in 1..ShownAfterFrames /\ ~fw.shown)
          /\ fw.shown => (fw.frame = ShownAfterFrames + 1 /\ fw.particles = {} /\ ~fw.active))
    /\ [][fw.shown /\ fw' # fw => (fw'.fresh /\ ~fw'.active)]_vars
    /\ (fw.active ~> (fw.quit \/ (fw.shown /\ ~fw.active)))
    /\ (fw.shown ~> (fw.quit \/ fw.fresh))

\* the fireworks have been shown and a later frame has copied the state
C36_Witness ==
    fw.shown /\ ~fw.active /\ fw.fresh /\ fw.entered = 1 /\ ~fw.quit
====
